---- MODULE Spec2Model ----
(***************************************************************************)
(* TopstepX MCP server: the session (auth.ts), the authenticated request   *)
(* with its single re-authentication retry (auth.ts), the reference data   *)
(* cache (data.ts), the tool handlers (tools.ts) and the start-up sequence *)
(* with the periodic refresh timer (index.ts).                             *)
(*                                                                         *)
(* The runtime is single-threaded: a step of the model is the code that    *)
(* runs between two suspension points (await) of one asynchronous          *)
(* invocation.  Invocations run in the slots Tasks and interleave at their *)
(* suspension points.  The remote API is an opaque collaborator: each of   *)
(* its answers is a nondeterministic choice.                               *)
(*                                                                         *)
(* Domain of the model: response bodies are JSON arrays or JSON objects    *)
(* (the two shapes the remote API uses) and symbols are ordinary ticker    *)
(* strings, none of them the name of a member of Object.prototype.         *)
(***************************************************************************)
EXTENDS Integers, Sequences, FiniteSets, TLC

(***************************************************************************)
(* Bounds                                                                  *)
(***************************************************************************)
MaxTasks == 2          \* invocations that can be in progress together
MaxLogins == 2         \* successful logins (each issues a fresh token)
NumCommon == 2         \* how many allow-list symbols the loop visits
MaxContractId == 2     \* contract ids the remote API can return
MaxAccountId == 2      \* account ids the remote API can return

(***************************************************************************)
(* Program constants                                                       *)
(***************************************************************************)
\* 24 * 60 * 60 * 1000 ms; the clock of the model counts days
TokenValidity == 1

AllCommonSymbols == <<"MES", "MNQ", "MYM", "M2K", "MGC", "MCL", "MBT", "MET">>

Min(a, b) == IF a < b THEN a ELSE b

COMMON_SYMBOLS == SubSeq(AllCommonSymbols, 1, Min(NumCommon, Len(AllCommonSymbols)))

(***************************************************************************)
(* Optional values: undefined/null is None, a present value v is Some(v)   *)
(***************************************************************************)
None == <<>>
Some(v) == <<v>>

Tasks == 1..MaxTasks
Tokens == 1..MaxLogins
ContractIds == 1..MaxContractId
AccountIds == 1..MaxAccountId

(***************************************************************************)
(* Values of the remote API                                                *)
(***************************************************************************)
Contract(id) == [id |-> id]
Account(id) == [id |-> id]

Contracts == {Contract(c) : c \in ContractIds}
Accounts == {Account(a) : a \in AccountIds}

\* ranked matches of a contract search: at most two, of different contracts
ContractLists ==
  {<<>>} \cup {<<c>> : c \in Contracts}
         \cup {p \in {<<c, d>> : c \in Contracts, d \in Contracts} : p[1].id # p[2].id}

\* an account search result: at most two accounts with different ids
AccountLists ==
  {<<>>} \cup {<<a>> : a \in Accounts}
         \cup {p \in {<<a, b>> : a \in Accounts, b \in Accounts} : p[1].id # p[2].id}

Undef == [t |-> "undef"]
ArrVal(items) == [t |-> "arr", items |-> items]
ObjVal(success, data, accounts, errorMessage) ==
  [t |-> "obj", success |-> success, data |-> data, accounts |-> accounts,
   errorMessage |-> errorMessage]

ArrBodies == {ArrVal(l) : l \in ContractLists}

\* flat payloads (no success field)
FlatBodies ==
  ArrBodies \cup {ObjVal("absent", None, Some(l), None) : l \in AccountLists}
            \cup {ObjVal("absent", None, None, None)}

\* envelopes {success, data?, errorMessage?}; AccountSearchResponse carries
\* its accounts beside success (types.ts)
EnvelopeBodies ==
  {ObjVal("true", Some(d), None, None) : d \in ArrBodies}
    \cup {ObjVal("true", None, Some(l), None) : l \in AccountLists}
    \cup {ObjVal("true", None, None, None)}
    \cup {ObjVal("true", Some(ArrVal(<<Contract(1)>>)), Some(<<Account(1)>>), None)}
    \cup {ObjVal("false", d, None, m) :
            d \in {None, Some(ArrVal(<<Contract(1)>>))},
            m \in {None, Some("E1")}}

Bodies == FlatBodies \cup EnvelopeBodies

\* what the transport reports for one call
Responses ==
  {[kind |-> "ok", status |-> 200, body |-> b] : b \in Bodies}
    \cup {[kind |-> "http", status |-> s, body |-> Undef] : s \in {401, 500}}
    \cup {[kind |-> "network", status |-> 0, body |-> Undef]}

\* what the login call can come to
LoginOutcomes == {"granted", "rejected", "http401", "network"}

(***************************************************************************)
(* Outcome of an asynchronous call: a value or a thrown error              *)
(***************************************************************************)
Ok(v) == [ok |-> TRUE, val |-> v, kind |-> "", msg |-> ""]
Err(kind, msg) == [ok |-> FALSE, val |-> Undef, kind |-> kind, msg |-> msg]
NoOut == [ok |-> FALSE, val |-> Undef, kind |-> "pending", msg |-> ""]

(***************************************************************************)
(* auth.ts: the envelope rules                                             *)
(***************************************************************************)
\* response.data.errorMessage || 'Request failed'
errorMessageOf(body) ==
  IF body.t = "obj" /\ body.errorMessage # None
  THEN body.errorMessage[1] ELSE "Request failed"

\* the first send: "Handle different response formats"
normalizeFirst(body) ==
  IF body.t = "obj" /\ body.success # "absent"
  THEN IF body.success = "true"
       THEN IF body.data # None THEN Ok(body.data[1]) ELSE Ok(body)
       ELSE Err("envelope", errorMessageOf(body))
  ELSE Ok(body)

\* the re-send after a 401
normalizeRetry(body) ==
  IF body.t = "obj" /\ body.success = "true"
  THEN IF body.data # None THEN Ok(body.data[1]) ELSE Ok(Undef)
  ELSE Err("envelope", errorMessageOf(body))

\* what a failed transport call throws
transportError(resp) ==
  IF resp.kind = "http"
  THEN Err(IF resp.status = 401 THEN "http401" ELSE "http", "status")
  ELSE Err("network", "network")

\* variants: no status is taken for a 401; every HTTP error status is
isUnauthorized_Never(resp) == FALSE
isUnauthorized_AnyStatus(resp) == resp.kind = "http"

\* error.response?.status === 401
isUnauthorized(resp) == resp.kind = "http" /\ resp.status = 401

\* the answer as the request records it
answerKind(resp) ==
  IF resp.kind = "ok" THEN "body"
  ELSE IF resp.kind = "http" /\ resp.status = 401 THEN "401"
  ELSE resp.kind

\* what a failed login throws
loginError(o) ==
  IF o = "rejected" THEN Err("auth", "Authentication failed")
  ELSE IF o = "http401" THEN Err("http401", "status")
  ELSE Err("network", "network")

(***************************************************************************)
(* State                                                                   *)
(***************************************************************************)
VARIABLES
  credsPresent,            \* username and API key are in the environment
  environment,             \* TOPSTEPX_ENVIRONMENT (None: not set)
  authToken,               \* auth.ts: authToken (None: null)
  tokenExpiry,             \* auth.ts: tokenExpiry (None: null), as the time left
                           \* until it: tokenExpiry - Date.now(), in days
  axiosInstance,           \* auth.ts: the transport; holds the token of its header
  baseURL,                 \* the baseURL the transport was created with
  nextToken,               \* the token the next successful login issues
  accountsCache,           \* data.ts: id -> Account
  contractsCache,          \* data.ts: symbol -> Contract
  symbolToContractIdMap,   \* data.ts: symbol -> id
  phase,                   \* "starting", "serving" or "exited"
  timerOn,                 \* the setInterval of initialize() is installed
  tasks                    \* the invocations in progress

sessionVars == <<authToken, tokenExpiry, axiosInstance, baseURL, nextToken>>
cacheVars == <<accountsCache, contractsCache, symbolToContractIdMap>>
vars == <<credsPresent, environment, authToken, tokenExpiry, axiosInstance,
          baseURL, nextToken,
          accountsCache, contractsCache, symbolToContractIdMap, phase,
          timerOn, tasks>>

EmptyMap == [k \in {} |-> 0]

\* delete every key, then assign in order: later entries overwrite earlier
RECURSIVE putAccounts(_, _)
putAccounts(cache, list) ==
  IF list = <<>> THEN cache
  ELSE LET a == Head(list)
           c == [k \in (DOMAIN cache) \cup {a.id} |->
                   IF k = a.id THEN a ELSE cache[k]]
       IN putAccounts(c, Tail(list))

\* variant: the assignment drops the other keys
put_Only(map, key, val) == [k \in {key} |-> val]

\* map[key] = val
put(map, key, val) ==
  [k \in (DOMAIN map) \cup {key} |-> IF k = key THEN val ELSE map[k]]

\* One call of topstepxRequest.  rpc is its position; the other fields
\* record what it has done: ensure is how ensureAuthenticated ended ("valid":
\* no login needed, "login": logged in, "failed"), sends counts the sends of
\* the call, relogins the logins started in the catch block, first is the
\* answer to the first send ("body", "401", "http", "network"), body the last
\* response body received, tokens the token each send carried.
NoReq ==
  [path |-> "", rpc |-> "none", ensure |-> "none", sends |-> 0, relogins |-> 0,
   first |-> "none", body |-> Undef, tokens |-> <<>>, out |-> NoOut]

NoResult == [kind |-> "none", msg |-> "", val |-> Undef]

NoArgs ==
  [symbol |-> None, searchText |-> None, limit |-> None, side |-> None,
   quantity |-> None, orderType |-> None, price |-> None, stopPrice |-> None,
   accountId |-> None, timeInForce |-> None, orderId |-> None,
   startTime |-> None, endTime |-> None, barType |-> None, onlyOpen |-> None]

IdleTask ==
  [op |-> "idle", pc |-> "idle", hasArguments |-> TRUE, args |-> NoArgs,
   uri |-> "", duringRefresh |-> FALSE, i |-> 0,
   contract |-> None, calls |-> <<>>, caught |-> 0, matched |-> 0, req |-> NoReq,
   result |-> NoResult]

(***************************************************************************)
(* auth.ts: ensureAuthenticated, authenticate, topstepxRequest             *)
(***************************************************************************)
\* the values of TOPSTEPX_ENVIRONMENT the model draws from
EnvFlags ==
  {None, Some(""), Some("demo"), Some("topstepx"), Some("live"), Some("staging")}

TopstepxHost == "https://api.topstepx.com/api"
LiveHost == "https://gateway-api.s2f.projectx.com/api"
DemoGatewayHost == "https://gateway-api-demo.s2f.projectx.com/api"

\* variant: an unset flag is not taken for 'demo'
getApiUrl_NoDefault ==
  IF environment \in {Some("topstepx"), Some("demo")} THEN TopstepxHost
  ELSE IF environment = Some("live") THEN LiveHost
  ELSE DemoGatewayHost

\* process.env.TOPSTEPX_ENVIRONMENT || 'demo', then the three-way choice
getApiUrl ==
  LET env == IF environment \in {None, Some("")} THEN "demo" ELSE environment[1]
  IN IF env = "topstepx" \/ env = "demo" THEN TopstepxHost
     ELSE IF env = "live" THEN LiveHost
     ELSE DemoGatewayHost

\* variant: the token is not looked at
needsLogin_NoToken == tokenExpiry = None \/ tokenExpiry[1] < 0

\* variant: the expiry is not looked at
needsLogin_NoExpiry == authToken = None \/ tokenExpiry = None

\* the condition of ensureAuthenticated under which it logs in
needsLogin ==
  authToken = None \/ tokenExpiry = None \/ tokenExpiry[1] < 0

\* variant: the credentials are not looked at
credentialsMissing_Ignored == FALSE

\* authenticate() up to its await: the credentials check
credentialsMissing == ~credsPresent

\* authenticate() after a granted login: the session it stores
sessionGranted ==
  /\ authToken' = Some(nextToken)
  /\ tokenExpiry' = Some(TokenValidity)
  /\ axiosInstance' = Some(nextToken)
  /\ baseURL' = Some(getApiUrl)
  /\ nextToken' = nextToken + 1

\* the answers the login call can get
loginAnswers ==
  IF nextToken <= MaxLogins THEN LoginOutcomes ELSE LoginOutcomes \ {"granted"}

\* topstepxRequest up to its first suspension: ensureAuthenticated
topstepxRequest(tk, path, body) ==
  LET rq == [NoReq EXCEPT !.path = path]
      started ==
        IF needsLogin
        THEN IF credentialsMissing
             THEN [rq EXCEPT !.rpc = "done", !.ensure = "failed",
                             !.out = Err("nocreds", "credentials must be set")]
             ELSE [rq EXCEPT !.rpc = "login_wait"]
        ELSE [rq EXCEPT !.rpc = "ensured", !.ensure = "valid"]
  IN [tk EXCEPT !.calls = Append(@, [path |-> path, body |-> body]),
                !.req = started]

\* the login of ensureAuthenticated is answered
RequestLoginResponse(t) ==
  /\ tasks[t].req.rpc = "login_wait"
  /\ \E o \in loginAnswers :
       IF o = "granted"
       THEN /\ sessionGranted
            /\ tasks' = [tasks EXCEPT ![t].req.rpc = "ensured",
                                      ![t].req.ensure = "login"]
       ELSE /\ tasks' = [tasks EXCEPT ![t].req.rpc = "done",
                                      ![t].req.ensure = "failed",
                                      ![t].req.out = loginError(o)]
            /\ UNCHANGED sessionVars
  /\ UNCHANGED <<environment, credsPresent, cacheVars, phase, timerOn>>

\* after ensureAuthenticated: "Not authenticated" or the first send
RequestSend(t) ==
  /\ tasks[t].req.rpc = "ensured"
  /\ IF axiosInstance = None
     THEN tasks' = [tasks EXCEPT ![t].req.rpc = "done",
                                 ![t].req.out = Err("notauth", "Not authenticated")]
     ELSE tasks' = [tasks EXCEPT ![t].req.rpc = "send_wait",
                                 ![t].req.sends = @ + 1,
                                 ![t].req.tokens = Append(@, axiosInstance[1])]
  /\ UNCHANGED <<environment, credsPresent, sessionVars, cacheVars, phase, timerOn>>

\* the first send is answered: the try block and the catch block up to
\* its await of authenticate()
RequestResponse(t, answers) ==
  /\ tasks[t].req.rpc = "send_wait"
  /\ \E resp \in answers :
       IF resp.kind = "ok"
       THEN /\ tasks' = [tasks EXCEPT ![t].req.rpc = "done",
                                      ![t].req.first = answerKind(resp),
                                      ![t].req.body = resp.body,
                                      ![t].req.out = normalizeFirst(resp.body)]
            /\ UNCHANGED sessionVars
       ELSE IF isUnauthorized(resp)
       THEN /\ authToken' = None
            /\ UNCHANGED <<tokenExpiry, axiosInstance, baseURL, nextToken>>
            /\ IF credentialsMissing
               THEN tasks' = [tasks EXCEPT ![t].req.rpc = "done",
                                           ![t].req.first = answerKind(resp),
                                           ![t].req.relogins = @ + 1,
                                           ![t].req.out = Err("nocreds", "credentials must be set")]
               ELSE tasks' = [tasks EXCEPT ![t].req.rpc = "relogin_wait",
                                           ![t].req.first = answerKind(resp),
                                           ![t].req.relogins = @ + 1]
       ELSE /\ tasks' = [tasks EXCEPT ![t].req.rpc = "done",
                                      ![t].req.first = answerKind(resp),
                                      ![t].req.out = transportError(resp)]
            /\ UNCHANGED sessionVars
  /\ UNCHANGED <<environment, credsPresent, cacheVars, phase, timerOn>>

\* the login after a 401 is answered
RequestReloginResponse(t) ==
  /\ tasks[t].req.rpc = "relogin_wait"
  /\ \E o \in loginAnswers :
       IF o = "granted"
       THEN /\ sessionGranted
            /\ tasks' = [tasks EXCEPT ![t].req.rpc = "relogged"]
       ELSE /\ tasks' = [tasks EXCEPT ![t].req.rpc = "done",
                                      ![t].req.out = loginError(o)]
            /\ UNCHANGED sessionVars
  /\ UNCHANGED <<environment, credsPresent, cacheVars, phase, timerOn>>

\* "Retry the request": axiosInstance!.request
RequestResend(t) ==
  /\ tasks[t].req.rpc = "relogged"
  /\ axiosInstance # None
  /\ tasks' = [tasks EXCEPT ![t].req.rpc = "resend_wait",
                            ![t].req.sends = @ + 1,
                            ![t].req.tokens = Append(@, axiosInstance[1])]
  /\ UNCHANGED <<environment, credsPresent, sessionVars, cacheVars, phase, timerOn>>

\* the re-send is answered; whatever it throws leaves the catch block
RequestRetryResponse(t, answers) ==
  /\ tasks[t].req.rpc = "resend_wait"
  /\ \E resp \in answers :
       tasks' = [tasks EXCEPT ![t].req.rpc = "done",
                              ![t].req.body = resp.body,
                              ![t].req.out =
                                 IF resp.kind = "ok" THEN normalizeRetry(resp.body)
                                 ELSE transportError(resp)]
  /\ UNCHANGED <<environment, credsPresent, sessionVars, cacheVars, phase, timerOn>>

\* the caller resumes with the outcome of its request
requestDone(t) == tasks[t].req.rpc = "done"

(***************************************************************************)
(* data.ts: initializeData, loadAccounts, loadContracts                    *)
(***************************************************************************)
AccountSearchBody == [onlyActiveAccounts |-> TRUE]
ContractSearchBody(symbol) == [searchText |-> symbol, live |-> FALSE]

\* response && response.accounts
accountsOf(v) ==
  IF v.t = "obj" /\ v.accounts # None THEN v.accounts[1] ELSE <<>>

\* contracts && contracts.length > 0
hasMatch(v) == v.t = "arr" /\ Len(v.items) > 0

\* contracts[0]
firstMatch(v) == v.items[1]

\* variant: no catch, the error of the request leaves loadAccounts
loadAccountsOutcome_Rethrow(out) == IF out.ok THEN Ok(Undef) ELSE out

\* the try/catch of loadAccounts: how loadAccounts ends when its request
\* has ended with out
loadAccountsOutcome(out) == Ok(Undef)

\* variant: no inner catch, the error of one search leaves the loop
loadContractOutcome_Rethrow(out) == IF out.ok THEN Ok(Undef) ELSE out

\* the inner try/catch of loadContracts: how the turn of one symbol ends
loadContractOutcome(out) == Ok(Undef)

\* variant: the map is cleared and left for a later step to fill
loadAccountsCache_ClearOnly(out) ==
  IF out.ok THEN EmptyMap ELSE accountsCache

\* loadAccounts after its request: "Clear and repopulate cache"
loadAccountsCache(out) ==
  IF out.ok THEN putAccounts(EmptyMap, accountsOf(out.val)) ELSE accountsCache

\* initializeData()/loadAccounts() up to the first suspension
initializeData(tk) ==
  topstepxRequest([tk EXCEPT !.pc = "accounts"], "/Account/search", AccountSearchBody)

\* what the caller of initializeData does when it returns or throws
initializeDataEnd(tk, out) ==
  IF tk.op = "main"
  THEN [tk EXCEPT !.pc = IF out.ok THEN "loaded" ELSE "failed",
                  !.req = NoReq,
                  !.result = [kind |-> IF out.ok THEN "returned" ELSE "threw",
                              msg |-> out.msg, val |-> Undef]]
  ELSE [tk EXCEPT !.pc = "done",
                  !.req = NoReq,
                  !.result = [kind |-> IF out.ok THEN "returned" ELSE "threw",
                              msg |-> out.msg, val |-> Undef]]

\* loadAccounts resumes after /Account/search
LoadAccountsResume(t) ==
  /\ tasks[t].pc = "accounts"
  /\ requestDone(t)
  /\ LET out == tasks[t].req.out
         end == loadAccountsOutcome(out)
     IN /\ accountsCache' = loadAccountsCache(out)
        /\ tasks' = [tasks EXCEPT ![t] =
             IF end.ok
             THEN [tasks[t] EXCEPT !.pc = "accounts_loaded", !.req = NoReq,
                                   !.caught = IF out.ok THEN @ ELSE @ + 1]
             ELSE initializeDataEnd(tasks[t], end)]
  /\ UNCHANGED <<environment, credsPresent, sessionVars, contractsCache,
                 symbolToContractIdMap, phase, timerOn>>

\* variant: the keys of the id view are left in place
clearedIdMap_Kept == symbolToContractIdMap

\* loadContracts: every key of symbolToContractIdMap is deleted
clearedIdMap == EmptyMap

\* loadContracts up to its first suspension: "Clear existing cache"
LoadContractsStart(t) ==
  /\ tasks[t].pc = "accounts_loaded"
  /\ contractsCache' = EmptyMap
  /\ symbolToContractIdMap' = clearedIdMap
  /\ tasks' = [tasks EXCEPT ![t] =
       IF Len(COMMON_SYMBOLS) = 0
       THEN initializeDataEnd(tasks[t], Ok(Undef))
       ELSE topstepxRequest([tasks[t] EXCEPT !.pc = "contracts", !.i = 1],
                            "/Contract/search",
                            ContractSearchBody(COMMON_SYMBOLS[1]))]
  /\ UNCHANGED <<environment, credsPresent, sessionVars, accountsCache, phase, timerOn>>

\* loadContracts resumes after the search of COMMON_SYMBOLS[i]
LoadContractsResume(t) ==
  /\ tasks[t].pc = "contracts"
  /\ requestDone(t)
  /\ LET out == tasks[t].req.out
         i == tasks[t].i
         symbol == COMMON_SYMBOLS[i]
         end == loadContractOutcome(out)
         cached == out.ok /\ hasMatch(out.val)
     IN /\ contractsCache' =
             IF cached THEN put(contractsCache, symbol, firstMatch(out.val))
             ELSE contractsCache
        /\ symbolToContractIdMap' =
             IF cached THEN put(symbolToContractIdMap, symbol, firstMatch(out.val).id)
             ELSE symbolToContractIdMap
        /\ tasks' = [tasks EXCEPT ![t] =
             IF ~end.ok
             THEN initializeDataEnd(tasks[t], Ok(Undef))
             ELSE LET tk == [tasks[t] EXCEPT !.caught = IF out.ok THEN @ ELSE @ + 1,
                                             !.matched = IF cached THEN @ + 1 ELSE @]
                  IN IF i < Len(COMMON_SYMBOLS)
                     THEN topstepxRequest([tk EXCEPT !.i = i + 1],
                                          "/Contract/search",
                                          ContractSearchBody(COMMON_SYMBOLS[i + 1]))
                     ELSE initializeDataEnd([tk EXCEPT !.i = 0], Ok(Undef))]
  /\ UNCHANGED <<environment, credsPresent, sessionVars, accountsCache, phase, timerOn>>

(***************************************************************************)
(* data.ts: getContractBySymbol, getPositions, getOrders,                  *)
(* getDefaultAccountId                                                     *)
(***************************************************************************)
\* Object.values of a map with integer keys: ascending key order
RECURSIVE objectValues(_)
objectValues(cache) ==
  IF DOMAIN cache = {} THEN <<>>
  ELSE LET k == CHOOSE x \in DOMAIN cache : \A y \in DOMAIN cache : x <= y
       IN <<cache[k]>> \o objectValues([y \in (DOMAIN cache) \ {k} |-> cache[y]])

\* variant: no default account is ever found
getDefaultAccountId_Absent == None

getDefaultAccountId ==
  LET accounts == objectValues(accountsCache)
  IN IF Len(accounts) > 0 THEN Some(accounts[1].id) ELSE None

\* the placeholders: an empty collection for every argument
\* variant: one open position of ES is reported
getPositions_OneOpen(accountId) == <<[id |-> 1, symbol |-> "ES", quantity |-> 1]>>

getPositions(accountId) == <<>>
getOrders(accountId, onlyOpen) == <<>>

\* variant: the cache is never consulted
isCached_Never(symbol) == FALSE

\* "Check cache first"
isCached(symbol) == symbol \in DOMAIN contractsCache

\* getContractBySymbol up to its first suspension
getContractBySymbol(tk, symbol) ==
  IF isCached(symbol)
  THEN [tk EXCEPT !.pc = "resolved", !.contract = Some(contractsCache[symbol])]
  ELSE topstepxRequest([tk EXCEPT !.pc = "lookup"], "/Contract/search",
                       ContractSearchBody(symbol))

\* variant: no catch in getContractBySymbol, the error reaches the catch
\* block of the handler
lookupFailure_Thrown(tk, out) ==
  [tk EXCEPT !.pc = "done", !.req = NoReq,
             !.result = [kind |-> "error", msg |-> "Failed: " \o out.msg, val |-> Undef]]

\* the catch of getContractBySymbol: the error is logged, null is returned
lookupFailure(tk, out) ==
  [tk EXCEPT !.pc = "resolved", !.req = NoReq, !.caught = @ + 1, !.contract = None]

\* getContractBySymbol resumes after its search; an error is caught and logged
LookupResume(t) ==
  /\ tasks[t].pc = "lookup"
  /\ requestDone(t)
  /\ LET out == tasks[t].req.out
         symbol == tasks[t].args.symbol[1]
         found == out.ok /\ hasMatch(out.val)
     IN /\ contractsCache' =
             IF found THEN put(contractsCache, symbol, firstMatch(out.val))
             ELSE contractsCache
        /\ symbolToContractIdMap' =
             IF found THEN put(symbolToContractIdMap, symbol, firstMatch(out.val).id)
             ELSE symbolToContractIdMap
        /\ tasks' = [tasks EXCEPT ![t] =
             IF out.ok
             THEN [tasks[t] EXCEPT !.pc = "resolved",
                                   !.req = NoReq,
                                   !.contract =
                                      IF found THEN Some(firstMatch(out.val)) ELSE None]
             ELSE lookupFailure(tasks[t], out)]
  /\ UNCHANGED <<environment, credsPresent, sessionVars, accountsCache, phase, timerOn>>

(***************************************************************************)
(* tools.ts: the tool handlers                                             *)
(***************************************************************************)
ToolNames ==
  {"get_accounts", "get_contract_details", "search_contracts",
   "get_common_contracts", "list_positions", "place_order", "close_position",
   "modify_order", "cancel_order", "list_orders", "get_account_summary",
   "get_market_data", "get_bars"}

\* !x of an optional string or number
falsyStr(o) == o = None \/ o = Some("")
falsyNum(o) == o = None \/ o = Some(0)

\* x = default in a destructuring
orDefault(o, d) == IF o = None THEN d ELSE o[1]

createToolResult(data) == [kind |-> "ok", msg |-> "", val |-> data]
createErrorResult(error) == [kind |-> "error", msg |-> error, val |-> Undef]

finish(tk, result) == [tk EXCEPT !.pc = "done", !.req = NoReq, !.result = result]

\* variant: the handler has no catch block, the error leaves it
failedTo_Thrown(tk, out) ==
  finish(tk, [kind |-> "threw", msg |-> out.msg, val |-> Undef])

\* the catch block of a handler: createErrorResult(`Failed to ...: ${error}`)
failedTo(tk, out) == finish(tk, createErrorResult("Failed: " \o out.msg))

\* destructuring request.params.arguments when it is undefined
noArguments(tk) == failedTo(tk, Err("type", "TypeError"))

\* variant: no order type asks for a price
needsPrice_Never(orderType) == FALSE

\* the price rules of handlePlaceOrder
needsPrice(orderType) == orderType \in {"Limit", "StopLimit"}
needsStopPrice(orderType) == orderType \in {"Stop", "StopLimit"}

\* variant: the price and the stop price are copied for every order type
placeOrderBody_Copied(a, contract, targetAccountId) ==
  [accountId |-> targetAccountId, contractId |-> contract.id,
   side |-> a.side[1], orderType |-> orDefault(a.orderType, "Market"),
   quantity |-> a.quantity[1], timeInForce |-> orDefault(a.timeInForce, "Day"),
   price |-> a.price, stopPrice |-> a.stopPrice]

\* the orderRequest of handlePlaceOrder
placeOrderBody(a, contract, targetAccountId) ==
  LET orderType == orDefault(a.orderType, "Market")
  IN [accountId |-> targetAccountId, contractId |-> contract.id,
      side |-> a.side[1], orderType |-> orderType, quantity |-> a.quantity[1],
      timeInForce |-> orDefault(a.timeInForce, "Day"),
      price |-> IF needsPrice(orderType) THEN a.price ELSE None,
      stopPrice |-> IF needsStopPrice(orderType) THEN a.stopPrice ELSE None]

modifyOrderBody(a) ==
  [orderId |-> a.orderId[1], quantity |-> a.quantity, price |-> a.price,
   stopPrice |-> a.stopPrice]

\* variant: the bar type asked for is not passed on
barsBody_OneMinute(contract, startTime, endTime, barType) ==
  [contractId |-> contract.id, startTime |-> startTime, endTime |-> endTime,
   barType |-> "1min"]

\* the body of a /MarketData/retrieve-bars call
barsBody(contract, startTime, endTime, barType) ==
  [contractId |-> contract.id, startTime |-> startTime, endTime |-> endTime,
   barType |-> barType]

\* variant: the arguments are destructured as in the other handlers
handleGetAccounts_Destructuring(tk) ==
  IF ~tk.hasArguments THEN noArguments(tk)
  ELSE finish(tk, createToolResult([accounts |-> objectValues(accountsCache),
                                    count |-> Len(objectValues(accountsCache))]))

handleGetAccounts(tk) ==
  LET accounts == objectValues(accountsCache)
  IN finish(tk, createToolResult([accounts |-> accounts, count |-> Len(accounts)]))

\* the order of Object.keys of the contract map is left out: a set
handleGetCommonContracts(tk) ==
  finish(tk, createToolResult(
    [contracts |-> {contractsCache[s] : s \in DOMAIN contractsCache},
     symbols |-> DOMAIN contractsCache]))

handleGetContractDetails(tk) ==
  IF falsyStr(tk.args.symbol)
  THEN finish(tk, createErrorResult("Symbol is required"))
  ELSE getContractBySymbol(tk, tk.args.symbol[1])

handleSearchContracts(tk) ==
  IF falsyStr(tk.args.searchText)
  THEN finish(tk, createErrorResult("Search text is required"))
  ELSE topstepxRequest([tk EXCEPT !.pc = "call"], "/Contract/search",
                       ContractSearchBody(tk.args.searchText[1]))

handleListPositions(tk) ==
  LET positions == getPositions(tk.args.accountId)
  IN finish(tk, createToolResult([positions |-> positions, count |-> Len(positions)]))

handleListOrders(tk) ==
  LET orders == getOrders(tk.args.accountId, orDefault(tk.args.onlyOpen, TRUE))
  IN finish(tk, createToolResult([orders |-> orders, count |-> Len(orders)]))

handlePlaceOrder(tk) ==
  IF falsyStr(tk.args.symbol) \/ falsyStr(tk.args.side) \/ falsyNum(tk.args.quantity)
  THEN finish(tk, createErrorResult("Symbol, side, and quantity are required"))
  ELSE getContractBySymbol(tk, tk.args.symbol[1])

handleClosePosition(tk) ==
  IF falsyStr(tk.args.symbol)
  THEN finish(tk, createErrorResult("Symbol is required"))
  ELSE getContractBySymbol(tk, tk.args.symbol[1])

\* variant: the order id is not checked
handleModifyOrder_Unchecked(tk) ==
  topstepxRequest([tk EXCEPT !.pc = "call"], "/Order/modify",
                  [orderId |-> tk.args.orderId, quantity |-> tk.args.quantity,
                   price |-> tk.args.price, stopPrice |-> tk.args.stopPrice])

handleModifyOrder(tk) ==
  IF falsyNum(tk.args.orderId)
  THEN finish(tk, createErrorResult("Order ID is required"))
  ELSE topstepxRequest([tk EXCEPT !.pc = "call"], "/Order/modify",
                       modifyOrderBody(tk.args))

handleCancelOrder(tk) ==
  IF falsyNum(tk.args.orderId)
  THEN finish(tk, createErrorResult("Order ID is required"))
  ELSE topstepxRequest([tk EXCEPT !.pc = "call"], "/Order/cancel",
                       [orderId |-> tk.args.orderId[1]])

handleGetAccountSummary(tk) ==
  LET targetAccountId ==
        IF falsyNum(tk.args.accountId) THEN getDefaultAccountId ELSE tk.args.accountId
  IN IF falsyNum(targetAccountId)
     THEN finish(tk, createErrorResult("No account ID provided and no default account available"))
     ELSE IF targetAccountId[1] \notin DOMAIN accountsCache
     THEN finish(tk, createErrorResult("Account not found"))
     ELSE finish(tk, createToolResult(
            [account |-> accountsCache[targetAccountId[1]],
             positions |-> Len(getPositions(targetAccountId)),
             openOrders |-> Len(getOrders(targetAccountId, TRUE))]))

handleGetMarketData(tk) ==
  IF falsyStr(tk.args.symbol)
  THEN finish(tk, createErrorResult("Symbol is required"))
  ELSE getContractBySymbol(tk, tk.args.symbol[1])

handleGetBars(tk) ==
  IF falsyStr(tk.args.symbol) \/ falsyStr(tk.args.startTime) \/ falsyStr(tk.args.endTime)
  THEN finish(tk, createErrorResult("Symbol, startTime, and endTime are required"))
  ELSE getContractBySymbol(tk, tk.args.symbol[1])

unknownTool(tk) == finish(tk, createErrorResult("Unknown tool"))

\* the switch of the CallToolRequestSchema handler
callTool(tk) ==
  IF tk.op \notin ToolNames THEN unknownTool(tk)
  ELSE IF tk.op = "get_accounts" THEN handleGetAccounts(tk)
  ELSE IF tk.op = "get_common_contracts" THEN handleGetCommonContracts(tk)
  ELSE IF ~tk.hasArguments THEN noArguments(tk)
  ELSE IF tk.op = "get_contract_details" THEN handleGetContractDetails(tk)
  ELSE IF tk.op = "search_contracts" THEN handleSearchContracts(tk)
  ELSE IF tk.op = "list_positions" THEN handleListPositions(tk)
  ELSE IF tk.op = "place_order" THEN handlePlaceOrder(tk)
  ELSE IF tk.op = "close_position" THEN handleClosePosition(tk)
  ELSE IF tk.op = "modify_order" THEN handleModifyOrder(tk)
  ELSE IF tk.op = "cancel_order" THEN handleCancelOrder(tk)
  ELSE IF tk.op = "list_orders" THEN handleListOrders(tk)
  ELSE IF tk.op = "get_account_summary" THEN handleGetAccountSummary(tk)
  ELSE IF tk.op = "get_market_data" THEN handleGetMarketData(tk)
  ELSE handleGetBars(tk)

\* the handlers after getContractBySymbol has returned
contractNotFound(tk) == finish(tk, createErrorResult("Contract not found"))

getContractDetailsResolved(tk) ==
  IF tk.contract = None THEN contractNotFound(tk)
  ELSE finish(tk, createToolResult(tk.contract[1]))

placeOrderResolved(tk) ==
  LET a == tk.args
      orderType == orDefault(a.orderType, "Market")
      targetAccountId ==
        IF falsyNum(a.accountId) THEN getDefaultAccountId ELSE a.accountId
  IN IF tk.contract = None THEN contractNotFound(tk)
     ELSE IF falsyNum(targetAccountId)
     THEN finish(tk, createErrorResult("No account ID provided and no default account available"))
     ELSE IF needsPrice(orderType) /\ falsyNum(a.price)
     THEN finish(tk, createErrorResult("Price is required for Limit orders"))
     ELSE IF needsStopPrice(orderType) /\ falsyNum(a.stopPrice)
     THEN finish(tk, createErrorResult("Stop price is required for Stop orders"))
     ELSE topstepxRequest([tk EXCEPT !.pc = "call"], "/Order/place",
                          placeOrderBody(a, tk.contract[1], targetAccountId[1]))

closePositionResolved(tk) ==
  IF tk.contract = None THEN contractNotFound(tk)
  ELSE [tk EXCEPT !.pc = "positions"]

getMarketDataResolved(tk) ==
  IF tk.contract = None THEN contractNotFound(tk)
  ELSE topstepxRequest([tk EXCEPT !.pc = "call"], "/MarketData/retrieve-bars",
                       barsBody(tk.contract[1], "now-60s", "now", "1min"))

getBarsResolved(tk) ==
  IF tk.contract = None THEN contractNotFound(tk)
  ELSE topstepxRequest([tk EXCEPT !.pc = "call"], "/MarketData/retrieve-bars",
                       barsBody(tk.contract[1], tk.args.startTime[1],
                                tk.args.endTime[1],
                                orDefault(tk.args.barType, "1min")))

ToolResolved(t) ==
  /\ tasks[t].pc = "resolved"
  /\ LET tk == tasks[t]
     IN tasks' = [tasks EXCEPT ![t] =
          IF tk.op = "get_contract_details" THEN getContractDetailsResolved(tk)
          ELSE IF tk.op = "place_order" THEN placeOrderResolved(tk)
          ELSE IF tk.op = "close_position" THEN closePositionResolved(tk)
          ELSE IF tk.op = "get_market_data" THEN getMarketDataResolved(tk)
          ELSE getBarsResolved(tk)]
  /\ UNCHANGED <<environment, credsPresent, sessionVars, cacheVars, phase, timerOn>>

\* handleClosePosition after getPositions has returned
ClosePositionResume(t) ==
  /\ tasks[t].pc = "positions"
  /\ LET tk == tasks[t]
         positions == getPositions(tk.args.accountId)
         matching == SelectSeq(positions, LAMBDA p : p.symbol = tk.args.symbol[1])
     IN tasks' = [tasks EXCEPT ![t] =
          IF matching = <<>>
          THEN finish(tk, createErrorResult("No open position found"))
          ELSE topstepxRequest([tk EXCEPT !.pc = "call"], "/Position/close-partial",
                 [positionId |-> matching[1].id,
                  quantity |-> IF falsyNum(tk.args.quantity)
                               THEN matching[1].quantity ELSE tk.args.quantity[1]])]
  /\ UNCHANGED <<environment, credsPresent, sessionVars, cacheVars, phase, timerOn>>

\* the handlers after their own Gateway call has returned or thrown
searchContractsDone(tk, out) ==
  IF ~out.ok THEN failedTo(tk, out)
  ELSE IF out.val.t # "arr" THEN failedTo(tk, Err("type", "TypeError"))
  ELSE LET limit == orDefault(tk.args.limit, 10)
       IN finish(tk, createToolResult(
            [contracts |-> SubSeq(out.val.items, 1, Min(limit, Len(out.val.items))),
             count |-> Len(out.val.items)]))

\* {success: true, order|cancelled: response}; the response itself is left out
orderDone(tk, out) ==
  IF ~out.ok THEN failedTo(tk, out)
  ELSE finish(tk, createToolResult([success |-> TRUE]))

getMarketDataDone(tk, out) ==
  IF ~out.ok THEN failedTo(tk, out)
  ELSE IF hasMatch(out.val)
  THEN finish(tk, createToolResult(
         [contract |-> tk.contract[1],
          latestBar |-> out.val.items[Len(out.val.items)]]))
  ELSE finish(tk, createErrorResult("No market data available"))

getBarsDone(tk, out) ==
  IF ~out.ok THEN failedTo(tk, out)
  ELSE IF out.val.t = "undef" THEN failedTo(tk, Err("type", "TypeError"))
  ELSE finish(tk, createToolResult(
         [barType |-> orDefault(tk.args.barType, "1min"),
          count |-> IF out.val.t = "arr" THEN Some(Len(out.val.items)) ELSE None]))

ToolCallResume(t) ==
  /\ tasks[t].pc = "call"
  /\ requestDone(t)
  /\ LET tk == tasks[t]
         out == tk.req.out
     IN tasks' = [tasks EXCEPT ![t] =
          IF tk.op = "search_contracts" THEN searchContractsDone(tk, out)
          ELSE IF tk.op = "get_market_data" THEN getMarketDataDone(tk, out)
          ELSE IF tk.op = "get_bars" THEN getBarsDone(tk, out)
          ELSE orderDone(tk, out)]
  /\ UNCHANGED <<environment, credsPresent, sessionVars, cacheVars, phase, timerOn>>

(***************************************************************************)
(* The arguments the invocations are drawn from                            *)
(***************************************************************************)
\* one required argument missing at a time, then every combination of the
\* optional ones
ArgsOf(name) ==
  IF name = "get_contract_details"
  THEN {[NoArgs EXCEPT !.symbol = s] : s \in {None, Some(""), Some("MES"), Some("ES")}}
  ELSE IF name = "get_market_data"
  THEN {[NoArgs EXCEPT !.symbol = s] : s \in {None, Some("ES")}}
  ELSE IF name = "search_contracts"
  THEN {NoArgs, [NoArgs EXCEPT !.searchText = Some("ES")],
        [NoArgs EXCEPT !.searchText = Some("ES"), !.limit = Some(1)]}
  ELSE IF name = "place_order"
  THEN {[NoArgs EXCEPT !.symbol = r[1], !.side = r[2], !.quantity = r[3]] :
          r \in {<<None, Some("Buy"), Some(1)>>, <<Some("MES"), None, Some(1)>>,
                 <<Some("MES"), Some("Buy"), None>>, <<Some("MES"), Some("Buy"), Some(0)>>}}
       \cup
       {[NoArgs EXCEPT !.symbol = Some("MES"), !.side = Some("Buy"),
                       !.quantity = Some(1), !.orderType = o, !.price = p,
                       !.stopPrice = sp] :
          o \in {None, Some("Limit"), Some("Stop"), Some("StopLimit")},
          p \in {None, Some(5000)}, sp \in {None, Some(4900)}}
       \cup
       {[NoArgs EXCEPT !.symbol = Some("MES"), !.side = Some("Buy"),
                       !.quantity = Some(1), !.accountId = Some(2),
                       !.timeInForce = Some("GTC")]}
  ELSE IF name = "close_position"
  THEN {[NoArgs EXCEPT !.symbol = s] : s \in {None, Some("ES")}}
  ELSE IF name = "modify_order"
  THEN {[NoArgs EXCEPT !.orderId = o, !.price = Some(5000)] : o \in {None, Some(7)}}
  ELSE IF name = "cancel_order"
  THEN {[NoArgs EXCEPT !.orderId = o] : o \in {None, Some(0), Some(7)}}
  ELSE IF name \in {"list_positions", "list_orders", "get_account_summary"}
  THEN {[NoArgs EXCEPT !.accountId = a] : a \in {None, Some(2)}}
  ELSE IF name = "get_bars"
  THEN {[NoArgs EXCEPT !.symbol = r[1], !.startTime = r[2], !.endTime = r[3]] :
          r \in {<<None, Some("T0"), Some("T1")>>, <<Some("MNQ"), None, Some("T1")>>,
                 <<Some("MNQ"), Some("T0"), None>>, <<Some("MNQ"), Some("T0"), Some("T1")>>}}
       \cup
       {[NoArgs EXCEPT !.symbol = Some("MNQ"), !.startTime = Some("T0"),
                       !.endTime = Some("T1"), !.barType = Some("5min")]}
  ELSE {NoArgs}

\* a tools/call request: the tool name and params.arguments (or none)
Invocations ==
  UNION {{[name |-> n, hasArguments |-> TRUE, args |-> a] : a \in ArgsOf(n)} :
           n \in ToolNames \cup {"unknown_tool"}}
    \cup {[name |-> n, hasArguments |-> FALSE, args |-> NoArgs] : n \in ToolNames}

(***************************************************************************)
(* index.ts: the tool dispatcher, main(), initialize() and the timer       *)
(***************************************************************************)
\* a scheduled refresh is in progress in another slot
refreshRunning(t) == \E u \in Tasks \ {t} : tasks[u].op = "refresh"

\* a tools/call request arrives; duringRefresh records whether a scheduled
\* refresh is in progress when the handler runs
CallTool(t, invocations) ==
  /\ phase = "serving"
  /\ tasks[t].op = "idle"
  /\ \E inv \in invocations :
       tasks' = [tasks EXCEPT ![t] =
         callTool([IdleTask EXCEPT !.op = inv.name,
                                   !.duringRefresh = refreshRunning(t),
                                   !.hasArguments = inv.hasArguments,
                                   !.args = inv.args])]
  /\ UNCHANGED <<environment, credsPresent, sessionVars, cacheVars, phase, timerOn>>

\* uri.match(/^topstepx:\/\/([^\/]+)(?:\/(.*))?$/) for the URIs of the model:
\* whether it matches, match[1] and match[2] (None: undefined)
matchUri(uri) ==
  IF uri = "topstepx://account/"
  THEN [match |-> TRUE, resourceType |-> "account", resourceId |-> Some("")]
  ELSE IF uri = "topstepx://account/1"
  THEN [match |-> TRUE, resourceType |-> "account", resourceId |-> Some("1")]
  ELSE IF uri = "topstepx://account/2"
  THEN [match |-> TRUE, resourceType |-> "account", resourceId |-> Some("2")]
  ELSE IF uri = "topstepx://position"
  THEN [match |-> TRUE, resourceType |-> "position", resourceId |-> None]
  ELSE IF uri = "topstepx://position/"
  THEN [match |-> TRUE, resourceType |-> "position", resourceId |-> Some("")]
  ELSE IF uri = "topstepx://position/2"
  THEN [match |-> TRUE, resourceType |-> "position", resourceId |-> Some("2")]
  ELSE IF uri = "topstepx://order/"
  THEN [match |-> TRUE, resourceType |-> "order", resourceId |-> Some("")]
  ELSE [match |-> FALSE, resourceType |-> "", resourceId |-> None]

ResourceUris ==
  {"topstepx://account/", "topstepx://account/1", "topstepx://account/2",
   "topstepx://position", "topstepx://position/", "topstepx://position/2",
   "topstepx://order/", "http://account/1"}

\* Number(resourceId) of the ids of the model
toNumber(str) == IF str = "1" THEN 1 ELSE IF str = "2" THEN 2 ELSE 0

\* the resource handler returns contents or throws to the protocol layer
resourceContents(data) == [kind |-> "ok", msg |-> "", val |-> data]
resourceError(msg) == [kind |-> "threw", msg |-> msg, val |-> Undef]

\* the ReadResourceRequestSchema handler
readResource(tk) ==
  LET m == matchUri(tk.uri)
      given == m.resourceId \notin {None, Some("")}
  IN IF ~m.match THEN finish(tk, resourceError("Invalid resource URI"))
     ELSE IF m.resourceType = "account"
     THEN IF given
          THEN IF toNumber(m.resourceId[1]) \in DOMAIN accountsCache
               THEN finish(tk, resourceContents(
                      [account |-> accountsCache[toNumber(m.resourceId[1])]]))
               ELSE finish(tk, resourceError("Account not found"))
          ELSE finish(tk, resourceContents([accounts |-> objectValues(accountsCache)]))
     ELSE IF m.resourceType = "position"
     THEN finish(tk, resourceContents(
            [positions |-> getPositions(IF given THEN Some(toNumber(m.resourceId[1]))
                                        ELSE None)]))
     ELSE finish(tk, resourceError("Unknown resource type"))

\* a resources/read request arrives
ReadResource(t, uris) ==
  /\ phase = "serving"
  /\ tasks[t].op = "idle"
  /\ \E uri \in uris :
       tasks' = [tasks EXCEPT ![t] =
         readResource([IdleTask EXCEPT !.op = "read_resource", !.uri = uri,
                                       !.duringRefresh = refreshRunning(t)])]
  /\ UNCHANGED <<environment, credsPresent, sessionVars, cacheVars, phase, timerOn>>

\* the result has been handed to the protocol layer
Return(t) ==
  /\ tasks[t].pc = "done"
  /\ tasks' = [tasks EXCEPT ![t] = IdleTask]
  /\ UNCHANGED <<environment, credsPresent, sessionVars, cacheVars, phase, timerOn>>

\* main() -> initialize() -> authenticate() up to the login call
MainStart ==
  /\ phase = "starting"
  /\ tasks[1].pc = "start"
  /\ IF credentialsMissing
     THEN /\ phase' = "exited"
          /\ tasks' = [tasks EXCEPT ![1].pc = "exited",
                                    ![1].result = [kind |-> "threw", msg |-> "credentials must be set", val |-> Undef]]
     ELSE /\ phase' = phase
          /\ tasks' = [tasks EXCEPT ![1].pc = "auth_wait"]
  /\ UNCHANGED <<environment, credsPresent, sessionVars, cacheVars, timerOn>>

\* the start-up login is answered; a failure ends the process
MainAuthResponse ==
  /\ tasks[1].pc = "auth_wait"
  /\ \E o \in loginAnswers :
       IF o = "granted"
       THEN /\ sessionGranted
            /\ tasks' = [tasks EXCEPT ![1].pc = "authenticated"]
            /\ phase' = phase
       ELSE /\ tasks' = [tasks EXCEPT ![1].pc = "exited",
                                      ![1].result = [kind |-> "threw", msg |-> loginError(o).msg, val |-> Undef]]
            /\ phase' = "exited"
            /\ UNCHANGED sessionVars
  /\ UNCHANGED <<environment, credsPresent, cacheVars, timerOn>>

\* initialize(): await initializeData()
MainInitializeData ==
  /\ tasks[1].pc = "authenticated"
  /\ tasks' = [tasks EXCEPT ![1] = initializeData(tasks[1])]
  /\ UNCHANGED <<environment, credsPresent, sessionVars, cacheVars, phase, timerOn>>

\* initialize() after initializeData: it installs the timer and returns, or
\* main() catches what initializeData threw and exits
MainSetTimer ==
  /\ tasks[1].pc \in {"loaded", "failed"}
  /\ IF tasks[1].pc = "loaded"
     THEN /\ timerOn' = TRUE
          /\ phase' = phase
          /\ tasks' = [tasks EXCEPT ![1].pc = "initialized"]
     ELSE /\ timerOn' = timerOn
          /\ phase' = "exited"
          /\ tasks' = [tasks EXCEPT ![1].pc = "exited"]
  /\ UNCHANGED <<environment, credsPresent, sessionVars, cacheVars>>

\* main() connects the transport: requests are served from now on
MainServe ==
  /\ tasks[1].pc = "initialized"
  /\ phase' = "serving"
  /\ tasks' = [tasks EXCEPT ![1] = IdleTask]
  /\ UNCHANGED <<environment, credsPresent, sessionVars, cacheVars, timerOn>>

\* the setInterval callback: await initializeData()
TimerTick(t) ==
  /\ timerOn
  /\ phase = "serving"
  /\ tasks[t].op = "idle"
  /\ tasks' = [tasks EXCEPT ![t] = initializeData([IdleTask EXCEPT !.op = "refresh"])]
  /\ UNCHANGED <<environment, credsPresent, sessionVars, cacheVars, phase, timerOn>>

\* a day passes; once the expiry has passed, more time changes nothing
Tick ==
  /\ phase # "exited"
  /\ tokenExpiry # None
  /\ tokenExpiry[1] >= 0
  /\ tokenExpiry' = Some(tokenExpiry[1] - 1)
  /\ UNCHANGED <<environment, credsPresent, authToken, axiosInstance, baseURL, nextToken, cacheVars,
                 phase, timerOn, tasks>>

(***************************************************************************)
(* Specification                                                           *)
(***************************************************************************)
\* the process starts with the environment flag drawn from flags
InitWith(flags) ==
  /\ credsPresent \in BOOLEAN
  /\ environment \in flags
  /\ authToken = None
  /\ tokenExpiry = None
  /\ axiosInstance = None
  /\ baseURL = None
  /\ nextToken = 1
  /\ accountsCache = EmptyMap
  /\ contractsCache = EmptyMap
  /\ symbolToContractIdMap = EmptyMap
  /\ phase = "starting"
  /\ timerOn = FALSE
  /\ tasks = [t \in Tasks |->
                IF t = 1 THEN [IdleTask EXCEPT !.op = "main", !.pc = "start"]
                ELSE IdleTask]

\* the environment flag is not set
Init == InitWith({None})

\* one invocation at a time: start-up, then tool calls and timer refreshes
\* that do not overlap
Solo == {1}

Next ==
  \/ MainStart
  \/ MainAuthResponse
  \/ MainInitializeData
  \/ MainSetTimer
  \/ MainServe
  \/ Tick
  \/ \E t \in Solo : TimerTick(t)
  \/ \E t \in Solo : CallTool(t, Invocations)
  \/ \E t \in Solo : ReadResource(t, ResourceUris)
  \/ \E t \in Solo : Return(t)
  \/ \E t \in Solo : RequestLoginResponse(t)
  \/ \E t \in Solo : RequestSend(t)
  \/ \E t \in Solo : RequestResponse(t, Responses)
  \/ \E t \in Solo : RequestReloginResponse(t)
  \/ \E t \in Solo : RequestResend(t)
  \/ \E t \in Solo : RequestRetryResponse(t, Responses)
  \/ \E t \in Solo : LoadAccountsResume(t)
  \/ \E t \in Solo : LoadContractsStart(t)
  \/ \E t \in Solo : LoadContractsResume(t)
  \/ \E t \in Solo : LookupResume(t)
  \/ \E t \in Solo : ToolResolved(t)
  \/ \E t \in Solo : ClosePositionResume(t)
  \/ \E t \in Solo : ToolCallResume(t)

Spec == Init /\ [][Next]_vars

\* The start-up of the server under every value of the environment flag, up
\* to the connection of the transport.
InitEnv == InitWith(EnvFlags)

NextEnv ==
  \/ MainStart
  \/ MainAuthResponse
  \/ MainInitializeData
  \/ MainSetTimer
  \/ MainServe
  \/ Tick
  \/ RequestLoginResponse(1)
  \/ RequestSend(1)
  \/ RequestResponse(1, Responses)
  \/ RequestReloginResponse(1)
  \/ RequestResend(1)
  \/ RequestRetryResponse(1, Responses)
  \/ LoadAccountsResume(1)
  \/ LoadContractsStart(1)
  \/ LoadContractsResume(1)

SpecEnv == InitEnv /\ [][NextEnv]_vars

\* Readers of the account cache beside the refresh: slot 1 runs the start-up
\* and the timer refreshes, slot 2 the tool calls and resource reads that read
\* the account cache, at any suspension point of the refresh.
ReaderInvocations ==
  {inv \in Invocations : inv.name \in {"get_accounts", "get_account_summary"}}

AccountUris == {"topstepx://account/", "topstepx://account/1", "topstepx://account/2"}

NextRace ==
  \/ MainStart
  \/ MainAuthResponse
  \/ MainInitializeData
  \/ MainSetTimer
  \/ MainServe
  \/ Tick
  \/ TimerTick(1)
  \/ Return(1)
  \/ RequestLoginResponse(1)
  \/ RequestSend(1)
  \/ RequestResponse(1, Responses)
  \/ RequestReloginResponse(1)
  \/ RequestResend(1)
  \/ RequestRetryResponse(1, Responses)
  \/ LoadAccountsResume(1)
  \/ LoadContractsStart(1)
  \/ LoadContractsResume(1)
  \/ CallTool(2, ReaderInvocations)
  \/ ReadResource(2, AccountUris)
  \/ Return(2)

SpecRace == Init /\ [][NextRace]_vars

\* Overlapping invocations that use the Gateway: slot 1 runs the start-up and
\* timer refreshes, slot 2 timer refreshes and lookups of a symbol of the
\* allow-list and of one outside it.  The answers of the Gateway are a match,
\* another match, no match, a 401 and a network error.
FewResponses ==
  {[kind |-> "ok", status |-> 200, body |-> ArrVal(l)] :
      l \in {<<>>, <<Contract(1)>>, <<Contract(MaxContractId)>>}}
    \cup {[kind |-> "http", status |-> 401, body |-> Undef],
          [kind |-> "network", status |-> 0, body |-> Undef]}

LookupInvocations ==
  {[name |-> "get_contract_details", hasArguments |-> TRUE,
    args |-> [NoArgs EXCEPT !.symbol = Some(s)]] : s \in {"MES", "ES"}}

\* the invocation of slot t is suspended on a network call
waiting(t) ==
  \/ tasks[t].req.rpc \in {"login_wait", "send_wait", "relogin_wait", "resend_wait"}
  \/ tasks[t].pc = "auth_wait"

\* the invocation of slot t has a continuation in the microtask queue
running(t) == tasks[t].op # "idle" /\ tasks[t].pc # "exited" /\ ~waiting(t)

\* The event loop takes the next timer or network event only when the
\* microtask queue is empty: a continuation that follows an await of an
\* already settled promise runs before any answer of the network is handled.
quiet == \A t \in Tasks : ~running(t)

NextOverlap ==
  \/ MainStart
  \/ MainAuthResponse
  \/ MainInitializeData
  \/ MainSetTimer
  \/ MainServe
  \/ Tick
  \/ \E t \in Tasks : quiet /\ TimerTick(t)
  \/ CallTool(2, LookupInvocations)
  \/ \E t \in Tasks : Return(t)
  \/ \E t \in Tasks : quiet /\ RequestLoginResponse(t)
  \/ \E t \in Tasks : RequestSend(t)
  \/ \E t \in Tasks : quiet /\ RequestResponse(t, FewResponses)
  \/ \E t \in Tasks : quiet /\ RequestReloginResponse(t)
  \/ \E t \in Tasks : RequestResend(t)
  \/ \E t \in Tasks : quiet /\ RequestRetryResponse(t, FewResponses)
  \/ \E t \in Tasks : LoadAccountsResume(t)
  \/ \E t \in Tasks : LoadContractsStart(t)
  \/ \E t \in Tasks : LoadContractsResume(t)
  \/ \E t \in Tasks : LookupResume(t)
  \/ \E t \in Tasks : ToolResolved(t)

SpecOverlap == Init /\ [][NextOverlap]_vars

(***************************************************************************)
(* Properties                                                              *)
(***************************************************************************)
Req(t) == tasks[t].req

sessionValid == authToken # None /\ tokenExpiry # None /\ tokenExpiry[1] >= 0

\* the errors a login can end with
LoginErrorKinds == {"nocreds", "auth", "http401", "network"}

\* the counters of a request at each of its positions
RequestShape(t) ==
  LET r == Req(t)
  IN /\ r.sends <= 2
     /\ r.relogins <= 1
     /\ r.rpc \in {"none", "login_wait", "ensured"} =>
          r.sends = 0 /\ r.relogins = 0 /\ r.first = "none"
     /\ r.rpc = "send_wait" => r.sends = 1 /\ r.relogins = 0 /\ r.first = "none"
     /\ r.rpc \in {"relogin_wait", "relogged"} =>
          r.sends = 1 /\ r.relogins = 1 /\ r.first = "401"
     /\ r.rpc = "resend_wait" => r.sends = 2 /\ r.relogins = 1 /\ r.first = "401"
     /\ r.first = "401" => r.relogins = 1
     /\ r.first \in {"body", "http", "network"} =>
          r.rpc = "done" /\ r.sends = 1 /\ r.relogins = 0
     /\ r.rpc = "done" /\ r.first = "401" /\ r.sends = 1 =>
          ~r.out.ok /\ r.out.kind \in LoginErrorKinds

\* the steps of the 401 path
RetrySteps(t) ==
  LET r == Req(t)
      q == tasks'[t].req
  IN \* a 401 to the first send: the token is dropped, one login is started
     /\ r.rpc = "send_wait" /\ q.first = "401" =>
          /\ authToken' = None
          /\ q.relogins = 1 /\ q.sends = 1
          /\ q.rpc \in {"relogin_wait", "done"}
     \* the login ends: the re-send is next, or the failure of the login
     /\ r.rpc = "relogin_wait" /\ q.rpc # "relogin_wait" =>
          \/ q.rpc = "relogged" /\ authToken' # None
          \/ q.rpc = "done" /\ ~q.out.ok /\ q.sends = 1 /\ UNCHANGED sessionVars
     \* the re-send
     /\ r.rpc = "relogged" /\ q.rpc # "relogged" =>
          q.rpc = "resend_wait" /\ q.sends = 2 /\ q.path = r.path
     \* its answer ends the request, whatever it is
     /\ r.rpc = "resend_wait" /\ q.rpc # "resend_wait" =>
          /\ q.rpc = "done" /\ q.sends = 2 /\ q.relogins = 1
          /\ UNCHANGED sessionVars
     \* a request that has ended sends nothing more and logs in no more
     /\ r.rpc = "done" /\ q.rpc = "done" => q = r

\* C1 as stated: a 401 to the first send is always followed by one login and
\* one re-send, so that a request that has ended after a 401 has sent twice.
C1_Original ==
  \A t \in Tasks :
    /\ Req(t).sends <= 2
    /\ Req(t).rpc = "done" /\ Req(t).first = "401" =>
         Req(t).relogins = 1 /\ Req(t).sends = 2

\* C1, amended: a 401 to the first send drops the token and starts exactly one
\* login; when that login is granted the call is re-sent exactly once and the
\* answer to the re-send, whatever it is, ends the request; when that login
\* fails its failure ends the request and the call is not re-sent.  A request
\* sends at most twice.
C1_RetryOnce ==
  /\ [](\A t \in Tasks : RequestShape(t))
  /\ [][\A t \in Tasks : RetrySteps(t)]_vars

\* a second 401 has ended a request: two sends, one login in between
C1_Witness ==
  \E t \in Tasks :
    /\ Req(t).rpc = "done" /\ Req(t).first = "401" /\ Req(t).sends = 2
    /\ Req(t).out.kind = "http401"

\* how the request of t passes from ensureAuthenticated to its first send
EnsureSteps(t) ==
  LET r == Req(t)
      q == tasks'[t].req
  IN \* no login: the session existed and its expiry had not passed
     /\ q.ensure = "valid" /\ r.ensure # "valid" => sessionValid /\ q.rpc = "ensured"
     /\ q.ensure = "valid" /\ q.rpc = "ensured" /\ r.rpc # "ensured" => sessionValid
     \* otherwise a login, which was granted
     /\ q.ensure = "login" /\ r.ensure # "login" =>
          r.rpc = "login_wait" /\ authToken' # None /\ axiosInstance' # None
     \* the first send follows ensureAuthenticated and uses the transport
     /\ q.sends = 1 /\ r.sends = 0 => r.rpc = "ensured" /\ axiosInstance # None

\* C2: a request sends only after ensureAuthenticated has passed: with no
\* session or an expiry that has passed a login comes first, and when that
\* login fails, or the credentials are missing, the request fails and
\* nothing is sent.
C2_EnsureFirst ==
  /\ [](\A t \in Tasks :
          /\ Req(t).sends >= 1 => Req(t).ensure \in {"valid", "login"}
          /\ Req(t).rpc \in {"ensured", "send_wait"} => Req(t).ensure \in {"valid", "login"}
          /\ Req(t).ensure = "failed" =>
               /\ Req(t).rpc = "done" /\ Req(t).sends = 0
               /\ ~Req(t).out.ok /\ Req(t).out.kind \in LoginErrorKinds
          /\ Req(t).rpc = "login_wait" => Req(t).sends = 0)
  /\ [][\A t \in Tasks : EnsureSteps(t)]_vars

\* the expiry had passed, the login failed, nothing was sent
C2_Witness ==
  \E t \in Tasks :
    /\ Req(t).ensure = "failed" /\ Req(t).rpc = "done" /\ Req(t).sends = 0
    /\ authToken # None /\ tokenExpiry # None /\ tokenExpiry[1] < 0

\* the rule of the Gateway contract for a received body
envelopeRule(body) ==
  IF body.t = "obj" /\ body.success = "false"
  THEN Err("envelope", IF body.errorMessage # None THEN body.errorMessage[1]
                       ELSE "Request failed")
  ELSE IF body.t = "obj" /\ body.success = "true"
  THEN IF body.data # None THEN Ok(body.data[1]) ELSE Ok(body)
  ELSE Ok(body)

\* C3: whenever a request ends on a received body, its outcome is the one the
\* envelope rule gives for that body, for the answer to the first send and
\* for the answer to the re-send alike.
C3_EnvelopeRule ==
  \A t \in Tasks :
    Req(t).rpc = "done" /\ Req(t).body # Undef =>
      Req(t).out = envelopeRule(Req(t).body)

\* the steps on which a call fails with something else than a 401
FailureSteps(t) ==
  LET r == Req(t)
      q == tasks'[t].req
      failed == \/ q.first \in {"http", "network"}
                \/ q.first = "body" /\ q.body.t = "obj" /\ q.body.success = "false"
  IN r.rpc = "send_wait" /\ q.rpc # "send_wait" /\ failed =>
       /\ q.rpc = "done" /\ ~q.out.ok
       /\ q.out.kind = (IF q.first = "body" THEN "envelope" ELSE q.first)
       /\ q.sends = 1 /\ q.relogins = 0
       /\ UNCHANGED sessionVars

\* C4: a failure that is not a 401 (another status, a transport error, an
\* envelope with success false) ends the request at once with that failure:
\* no login, no re-send, and token, expiry and transport stay as they are.
C4_NoRetryOtherwise == [][\A t \in Tasks : FailureSteps(t)]_vars

\* a status other than 401 has ended a request after one send
C4_Witness ==
  \E t \in Tasks :
    /\ Req(t).rpc = "done" /\ Req(t).first = "http" /\ Req(t).sends = 1
    /\ Req(t).out.kind = "http"

\* C5: initializeData never throws: no start-up fails in it and every timer
\* refresh returns, whatever calls of it failed.
C5_RefreshNeverThrows ==
  \A t \in Tasks :
    /\ tasks[t].pc # "failed"
    /\ tasks[t].op = "refresh" => tasks[t].result.kind \in {"none", "returned"}
    /\ tasks[t].pc = "loaded" => tasks[t].result.kind = "returned"

\* a timer refresh has returned although every one of its calls failed
C5_Witness ==
  \E t \in Tasks :
    /\ tasks[t].op = "refresh" /\ tasks[t].pc = "done"
    /\ tasks[t].result.kind = "returned"
    /\ tasks[t].caught = 1 + Len(COMMON_SYMBOLS)

\* the account map a call leaves, by the Gateway contract: the accounts of a
\* call that succeeded, else the map as it was
accountsAfter(r) ==
  IF r.body # Undef /\ envelopeRule(r.body).ok
  THEN LET v == envelopeRule(r.body).val
           list == IF v.t = "obj" /\ v.accounts # None THEN v.accounts[1] ELSE <<>>
       IN [id \in {list[k].id : k \in DOMAIN list} |->
             list[CHOOSE k \in DOMAIN list :
                    list[k].id = id /\ \A j \in DOMAIN list : list[j].id = id => j <= k]]
  ELSE accountsCache

\* C6: the account map changes only when an /Account/search call returns to
\* loadAccounts: a call that succeeded replaces the map by exactly the
\* accounts it returned, keyed by id, and a call that failed leaves the map
\* as it was.
C6_LastSuccessfulSearch ==
  [][/\ \A t \in Tasks :
          tasks[t].pc = "accounts" /\ tasks'[t].pc # "accounts" =>
            accountsCache' = accountsAfter(Req(t))
     /\ (\A t \in Tasks : ~(tasks[t].pc = "accounts" /\ tasks'[t].pc # "accounts")) =>
          accountsCache' = accountsCache]_vars

LookupTools ==
  {"get_contract_details", "place_order", "close_position", "get_market_data",
   "get_bars"}

\* the steps of one lookup of the symbol of t
LookupSteps(t) ==
  LET tk == tasks[t]
      nk == tasks'[t]
  IN \* the lookup begins: a cached symbol is answered from the cache
     /\ tk.op = "idle" /\ nk.op \in LookupTools /\ nk.pc \in {"resolved", "lookup"} =>
          LET symbol == nk.args.symbol[1]
          IN /\ UNCHANGED cacheVars
             /\ IF symbol \in DOMAIN contractsCache
                THEN /\ nk.pc = "resolved"
                     /\ nk.contract = Some(contractsCache[symbol])
                     /\ nk.calls = <<>>
                ELSE /\ nk.pc = "lookup"
                     /\ nk.calls = <<[path |-> "/Contract/search",
                                      body |-> [searchText |-> symbol, live |-> FALSE]]>>
     \* while it waits for its search it calls nothing else
     /\ tk.pc = "lookup" /\ nk.pc = "lookup" => nk.calls = tk.calls
     \* the search has ended: the first match is stored and returned
     /\ tk.pc = "lookup" /\ nk.pc # "lookup" =>
          LET symbol == tk.args.symbol[1]
              out == tk.req.out
              found == out.ok /\ out.val.t = "arr" /\ Len(out.val.items) >= 1
          IN /\ nk.pc = "resolved"
             /\ nk.calls = tk.calls
             /\ Len(nk.calls) = 1
             /\ accountsCache' = accountsCache
             /\ IF found
                THEN /\ nk.contract = Some(out.val.items[1])
                     /\ contractsCache' =
                          [k \in (DOMAIN contractsCache) \cup {symbol} |->
                             IF k = symbol THEN out.val.items[1] ELSE contractsCache[k]]
                     /\ symbolToContractIdMap' =
                          [k \in (DOMAIN symbolToContractIdMap) \cup {symbol} |->
                             IF k = symbol THEN out.val.items[1].id
                             ELSE symbolToContractIdMap[k]]
                ELSE /\ nk.contract = None
                     /\ contractsCache' = contractsCache
                     /\ symbolToContractIdMap' = symbolToContractIdMap

\* C7: a lookup of a cached symbol returns the cached entry and issues no
\* search; a lookup of a symbol that is not cached issues exactly one
\* /Contract/search, stores the first match under the symbol and returns it,
\* or returns absent and stores nothing when there is no match.
C7_LookupIdempotent == [][\A t \in Tasks : LookupSteps(t)]_vars

\* a lookup has gone to the remote API once and returned what it then stored
C7_Witness ==
  \E t \in Tasks :
    /\ tasks[t].op = "get_contract_details" /\ tasks[t].pc = "resolved"
    /\ Len(tasks[t].calls) = 1
    /\ tasks[t].contract # None
    /\ tasks[t].args.symbol[1] \in DOMAIN contractsCache
    /\ contractsCache[tasks[t].args.symbol[1]] = tasks[t].contract[1]

CommonSet == {COMMON_SYMBOLS[i] : i \in DOMAIN COMMON_SYMBOLS}

\* the entry of s is in the cache after the step as it was before
EntryKept(s) ==
  s \in DOMAIN contractsCache' /\ contractsCache'[s] = contractsCache[s]

\* C8 as stated: an entry of a symbol outside the allow-list, once in the
\* contract cache, is never removed or changed by any step.
C8_Original ==
  [][\A s \in DOMAIN contractsCache : s \notin CommonSet => EntryKept(s)]_vars

\* C8, amended: an entry of a symbol outside the allow-list stays in the
\* contract cache unchanged until a refresh begins loadContracts, which
\* empties the contract cache; apart from that only a lookup of the same
\* symbol that was waiting for its search can replace it, and no lookup that
\* begins while the entry is cached searches for it.
C8_KeptUntilRefresh ==
  [][/\ \A s \in DOMAIN contractsCache :
          s \notin CommonSet =>
            \/ EntryKept(s)
            \/ \E t \in Tasks :
                 /\ tasks[t].op \in {"main", "refresh"}
                 /\ tasks[t].pc = "accounts_loaded" /\ tasks'[t].pc # "accounts_loaded"
                 /\ \A k \in DOMAIN contractsCache : k \notin DOMAIN contractsCache'
            \/ \E t \in Tasks :
                 /\ tasks[t].pc = "lookup" /\ tasks'[t].pc = "resolved"
                 /\ tasks[t].args.symbol = Some(s)
     /\ \A t \in Tasks :
          tasks[t].op = "idle" /\ tasks'[t].pc = "lookup" =>
            tasks'[t].args.symbol[1] \notin DOMAIN contractsCache]_vars

\* a later lookup of a lazily cached symbol is answered from the cache
C8_Witness ==
  \E t \in Tasks :
    /\ tasks[t].op = "get_contract_details" /\ tasks[t].pc = "resolved"
    /\ tasks[t].calls = <<>>
    /\ tasks[t].args.symbol = Some("ES")
    /\ "ES" \in DOMAIN contractsCache
    /\ tasks[t].contract = Some(contractsCache["ES"])

\* the required arguments of the tools that have some
RequiredArgs(name) ==
  IF name \in {"get_contract_details", "close_position", "get_market_data"}
  THEN {"symbol"}
  ELSE IF name = "search_contracts" THEN {"searchText"}
  ELSE IF name = "place_order" THEN {"symbol", "side", "quantity"}
  ELSE IF name \in {"modify_order", "cancel_order"} THEN {"orderId"}
  ELSE IF name = "get_bars" THEN {"symbol", "startTime", "endTime"}
  ELSE {}

missingRequired(tk) ==
  /\ RequiredArgs(tk.op) # {}
  /\ \/ ~tk.hasArguments
     \/ \E f \in RequiredArgs(tk.op) : tk.args[f] = None

\* C9: an invocation that lacks a required argument has returned an error
\* result as soon as it exists and has issued no Gateway call.
C9_MissingArgument ==
  \A t \in Tasks :
    missingRequired(tasks[t]) =>
      /\ tasks[t].pc = "done"
      /\ tasks[t].result.kind = "error"
      /\ tasks[t].calls = <<>>
      /\ tasks[t].req = NoReq

\* place_order without quantity, symbol and side given
C9_Witness ==
  \E t \in Tasks :
    /\ tasks[t].op = "place_order" /\ tasks[t].hasArguments
    /\ tasks[t].args.symbol = Some("MES") /\ tasks[t].args.side = Some("Buy")
    /\ tasks[t].args.quantity = None
    /\ tasks[t].pc = "done" /\ tasks[t].result.kind = "error"

\* place_order with its required arguments and an order type whose price or
\* stop price is not given
priceRuleBroken(tk) ==
  /\ tk.op = "place_order" /\ tk.hasArguments
  /\ tk.args.symbol \notin {None, Some("")}
  /\ tk.args.side \notin {None, Some("")}
  /\ tk.args.quantity \notin {None, Some(0)}
  /\ \/ tk.args.orderType \in {Some("Limit"), Some("StopLimit")} /\ tk.args.price = None
     \/ tk.args.orderType \in {Some("Stop"), Some("StopLimit")} /\ tk.args.stopPrice = None

PriceErrors ==
  {"Price is required for Limit orders", "Stop price is required for Stop orders"}

\* C10 as stated: such an invocation issues no Gateway call at all and
\* returns the validation error.
C10_Original ==
  \A t \in Tasks :
    priceRuleBroken(tasks[t]) =>
      /\ tasks[t].calls = <<>>
      /\ tasks[t].pc = "done" => /\ tasks[t].result.kind = "error"
                                 /\ tasks[t].result.msg \in PriceErrors

\* C10, amended: such an invocation never issues /Order/place and returns an
\* error result; the one Gateway call it can issue is the /Contract/search
\* of its lookup, issued when it begins and only for a symbol that is not
\* cached; the error is the validation error whenever the symbol resolves
\* and an account id is given or cached.
C10_NoOrderPlaced ==
  /\ [](\A t \in Tasks :
          priceRuleBroken(tasks[t]) =>
            /\ Len(tasks[t].calls) <= 1
            /\ \A k \in DOMAIN tasks[t].calls :
                 /\ tasks[t].calls[k].path = "/Contract/search"
                 /\ tasks[t].calls[k].body.searchText = tasks[t].args.symbol[1]
            /\ tasks[t].pc # "call"
            /\ tasks[t].pc = "done" =>
                 /\ tasks[t].result.kind = "error"
                 /\ tasks[t].result.msg \in
                      PriceErrors \cup
                        {"Contract not found",
                         "No account ID provided and no default account available"})
  /\ [][\A t \in Tasks :
          priceRuleBroken(tasks'[t]) =>
            /\ tasks[t].op = "idle" /\ tasks'[t].args.symbol[1] \in DOMAIN contractsCache =>
                 tasks'[t].calls = <<>>
            /\ tasks[t].op # "idle" => tasks'[t].calls = tasks[t].calls
            /\ tasks[t].pc = "resolved" /\ tasks'[t].pc # "resolved"
               /\ tasks[t].contract # None
               /\ (tasks[t].args.accountId \notin {None, Some(0)} \/ DOMAIN accountsCache # {}) =>
                 tasks'[t].pc = "done" /\ tasks'[t].result.msg \in PriceErrors]_vars

\* the lookup went to the remote API, then the price rule stopped the order
C10_Witness ==
  \E t \in Tasks :
    /\ priceRuleBroken(tasks[t])
    /\ tasks[t].pc = "done"
    /\ tasks[t].result.msg = "Price is required for Limit orders"
    /\ Len(tasks[t].calls) = 1

\* the last call an invocation has handed to the Gateway
lastCall(tk) == tk.calls[Len(tk.calls)]

\* the entry Object.values lists first: integer keys come in ascending order
firstAccountId == CHOOSE x \in DOMAIN accountsCache : \A y \in DOMAIN accountsCache : x <= y

\* the step of place_order that follows the lookup of its symbol
PlaceOrderSteps(t) ==
  LET tk == tasks[t]
      nk == tasks'[t]
      a == tk.args
      orderType == IF a.orderType = None THEN "Market" ELSE a.orderType[1]
      timeInForce == IF a.timeInForce = None THEN "Day" ELSE a.timeInForce[1]
      withPrice == orderType \in {"Limit", "StopLimit"}
      withStop == orderType \in {"Stop", "StopLimit"}
      account ==
        IF a.accountId \notin {None, Some(0)} THEN a.accountId
        ELSE IF DOMAIN accountsCache = {} THEN None
        ELSE Some(firstAccountId)
      valid ==
        /\ tk.contract # None
        /\ account # None
        /\ withPrice => a.price \notin {None, Some(0)}
        /\ withStop => a.stopPrice \notin {None, Some(0)}
  IN /\ tk.op = "place_order" /\ tk.pc = "resolved" /\ nk.pc # "resolved" =>
          IF valid
          THEN /\ nk.pc = "call"
               /\ nk.calls = Append(tk.calls,
                    [path |-> "/Order/place",
                     body |-> [contractId |-> tk.contract[1].id,
                               accountId |-> account[1],
                               side |-> a.side[1],
                               quantity |-> a.quantity[1],
                               orderType |-> orderType,
                               timeInForce |-> timeInForce,
                               price |-> IF withPrice THEN a.price ELSE None,
                               stopPrice |-> IF withStop THEN a.stopPrice ELSE None]])
               /\ a.symbol[1] \in DOMAIN contractsCache
               /\ contractsCache[a.symbol[1]] = tk.contract[1]
          ELSE nk.pc = "done" /\ nk.calls = tk.calls
     \* no other step hands an /Order/place to the Gateway
     /\ (nk.calls # tk.calls /\ nk.calls # <<>> /\ lastCall(nk).path = "/Order/place") =>
          tk.op = "place_order" /\ tk.pc = "resolved"

\* C11: a place_order that passes validation hands the Gateway one
\* /Order/place whose body has the id of the contract the cache holds for the
\* symbol, the supplied accountId or else the id of the first cached account,
\* the given side and quantity, orderType (default Market), timeInForce
\* (default Day), price exactly for Limit and StopLimit and stopPrice exactly
\* for Stop and StopLimit, each equal to its argument.
C11_OrderBody == [][\A t \in Tasks : PlaceOrderSteps(t)]_vars

\* a Limit order with price 5000 and no accountId has reached the Gateway
C11_Witness ==
  \E t \in Tasks :
    /\ tasks[t].op = "place_order" /\ tasks[t].pc = "call"
    /\ tasks[t].args.accountId = None
    /\ tasks[t].args.orderType = Some("Limit")
    /\ lastCall(tasks[t]).path = "/Order/place"
    /\ lastCall(tasks[t]).body.price = Some(5000)
    /\ lastCall(tasks[t]).body.stopPrice = None
    /\ lastCall(tasks[t]).body.accountId \in DOMAIN accountsCache

\* a get_bars invocation that has its required arguments
IsGetBars(tk) ==
  /\ tk.op = "get_bars" /\ tk.hasArguments
  /\ tk.args.symbol \notin {None, Some("")}
  /\ tk.args.startTime \notin {None, Some("")}
  /\ tk.args.endTime \notin {None, Some("")}

\* the two calls get_bars can hand to the Gateway
barsSearch(tk) ==
  [path |-> "/Contract/search",
   body |-> [searchText |-> tk.args.symbol[1], live |-> FALSE]]

barsRetrieve(tk) ==
  [path |-> "/MarketData/retrieve-bars",
   body |-> [contractId |-> tk.contract[1].id,
             startTime |-> tk.args.startTime[1],
             endTime |-> tk.args.endTime[1],
             barType |-> IF tk.args.barType = None THEN "1min"
                         ELSE tk.args.barType[1]]]

\* the calls of get_bars at each of its positions
BarsShape(tk) ==
  /\ tk.pc = "lookup" => tk.calls = <<barsSearch(tk)>>
  /\ tk.pc = "resolved" => tk.calls \in {<<>>, <<barsSearch(tk)>>}
  /\ tk.pc = "call" =>
       /\ tk.contract # None
       /\ tk.calls \in {<<barsRetrieve(tk)>>, <<barsSearch(tk), barsRetrieve(tk)>>}
  /\ tk.pc = "done" =>
       IF tk.contract = None
       THEN tk.calls \in {<<>>, <<barsSearch(tk)>>}
       ELSE tk.calls \in {<<barsRetrieve(tk)>>, <<barsSearch(tk), barsRetrieve(tk)>>}

BarsSteps(t) ==
  LET tk == tasks[t]
      nk == tasks'[t]
  IN /\ (tk.op = "idle" /\ IsGetBars(nk)) =>
          IF nk.args.symbol[1] \in DOMAIN contractsCache
          THEN nk.pc = "resolved" /\ nk.calls = <<>>
          ELSE nk.pc = "lookup" /\ nk.calls = <<barsSearch(nk)>>
     /\ (IsGetBars(tk) /\ tk.pc = "resolved" /\ nk.pc # "resolved") =>
          IF tk.contract # None
          THEN nk.pc = "call" /\ nk.calls = Append(tk.calls, barsRetrieve(tk))
          ELSE nk.pc = "done" /\ nk.calls = tk.calls /\ nk.result.kind = "error"

\* C12: get_bars for a symbol that is not cached hands the Gateway exactly
\* one /Contract/search and then, when the symbol resolved, exactly one
\* /MarketData/retrieve-bars with the resolved contract id, the given
\* startTime and endTime and the given barType (1min when omitted); when the
\* symbol does not resolve it hands no retrieve-bars at all.
C12_BarsCalls ==
  /\ [](\A t \in Tasks : IsGetBars(tasks[t]) => BarsShape(tasks[t]))
  /\ [][\A t \in Tasks : BarsSteps(t)]_vars

\* get_bars(MNQ, T0, T1, 5min) with MNQ not cached has returned its bars
C12_Witness ==
  \E t \in Tasks :
    /\ IsGetBars(tasks[t]) /\ tasks[t].pc = "done"
    /\ tasks[t].args.barType = Some("5min")
    /\ tasks[t].result.kind = "ok"
    /\ Len(tasks[t].calls) = 2
    /\ tasks[t].calls[1].path = "/Contract/search"
    /\ tasks[t].calls[2].body.barType = "5min"
    /\ tasks[t].calls[2].body.contractId = tasks[t].contract[1].id

\* get_account_summary without an accountId: the default account is used
UsesDefaultAccount(tk) ==
  /\ tk.op = "get_account_summary" /\ tk.hasArguments
  /\ tk.args.accountId \in {None, Some(0)}
  /\ tk.pc = "done"

\* C13: getDefaultAccountId returns absent exactly when the account cache
\* is empty, otherwise the id of an account in the cache, and returns the
\* same id as long as the account cache does not change; an invocation that
\* falls back on it fails for want of an account exactly when the cache is
\* empty.
C13_DefaultAccount ==
  /\ []((getDefaultAccountId = None <=> DOMAIN accountsCache = {})
        /\ (getDefaultAccountId # None =>
              getDefaultAccountId[1] \in DOMAIN accountsCache)
        /\ \A t \in Tasks :
             UsesDefaultAccount(tasks[t]) =>
               IF DOMAIN accountsCache = {}
               THEN /\ tasks[t].result.kind = "error"
                    /\ tasks[t].result.msg =
                         "No account ID provided and no default account available"
               ELSE /\ tasks[t].result.kind = "ok"
                    /\ tasks[t].result.val.account.id = getDefaultAccountId[1])
  /\ [][accountsCache' = accountsCache =>
          getDefaultAccountId' = getDefaultAccountId]_vars

\* two accounts are cached and a summary was given for the default one
C13_Witness ==
  \E t \in Tasks :
    /\ UsesDefaultAccount(tasks[t])
    /\ Cardinality(DOMAIN accountsCache) = 2
    /\ tasks[t].result.kind = "ok"
    /\ tasks[t].result.val.account.id \in DOMAIN accountsCache

\* C14: get_accounts has returned as soon as it is called, with no Gateway
\* call, and its result is never an error: it lists exactly the accounts of
\* the account cache, each once, with count their number, and is
\* {accounts: [], count: 0} when the cache is empty.
C14_GetAccounts ==
  \A t \in Tasks :
    tasks[t].op = "get_accounts" =>
      LET r == tasks[t].result
      IN /\ tasks[t].pc = "done"
         /\ tasks[t].calls = <<>>
         /\ tasks[t].req = NoReq
         /\ r.kind = "ok"
         /\ r.val.count = Cardinality(DOMAIN accountsCache)
         /\ Len(r.val.accounts) = r.val.count
         /\ {r.val.accounts[k] : k \in DOMAIN r.val.accounts} =
              {accountsCache[id] : id \in DOMAIN accountsCache}
         /\ DOMAIN accountsCache = {} => r.val = [accounts |-> <<>>, count |-> 0]

\* get_accounts with an empty cache
C14_Witness ==
  \E t \in Tasks :
    /\ tasks[t].op = "get_accounts" /\ tasks[t].pc = "done"
    /\ DOMAIN accountsCache = {}
    /\ tasks[t].result = [kind |-> "ok", msg |-> "",
                          val |-> [accounts |-> <<>>, count |-> 0]]

\* the arguments the placeholders can be given
PlaceholderIds == {None} \cup {Some(a) : a \in 0..MaxAccountId}

\* what C15 says of one invocation
PlaceholderResult(tk) ==
  /\ tk.op \in {"list_positions", "list_orders"} =>
       /\ tk.pc = "done"
       /\ tk.calls = <<>>
       /\ tk.result.kind = "ok"
       /\ tk.result.val.count = 0
  /\ tk.op = "read_resource" /\ matchUri(tk.uri).resourceType = "position" =>
       /\ tk.pc = "done"
       /\ tk.calls = <<>>
       /\ tk.result = resourceContents([positions |-> <<>>])

\* C15: getPositions and getOrders return an empty collection for every
\* argument in every state and issue no Gateway call; list_positions and
\* list_orders always return count 0 and a read of a position resource always
\* returns an empty list.
C15_Placeholders ==
  /\ \A a \in PlaceholderIds :
       /\ getPositions(a) = <<>>
       /\ \A o \in BOOLEAN : getOrders(a, o) = <<>>
  /\ \A t \in Tasks : PlaceholderResult(tasks[t])

\* an invocation of the tool dispatcher, whatever the tool name
IsTool(tk) == tk.op \notin {"idle", "main", "refresh", "read_resource"}

\* a step of the invocation in slot t
StepOf(t) ==
  \/ RequestLoginResponse(t)
  \/ RequestSend(t)
  \/ RequestResponse(t, Responses)
  \/ RequestReloginResponse(t)
  \/ RequestResend(t)
  \/ RequestRetryResponse(t, Responses)
  \/ LookupResume(t)
  \/ ToolResolved(t)
  \/ ClosePositionResume(t)
  \/ ToolCallResume(t)
  \/ Return(t)

\* the invocation has met a failure: its Gateway call threw, or its symbol
\* did not resolve
Failing(tk) ==
  \/ tk.pc = "call" /\ tk.req.rpc = "done" /\ ~tk.req.out.ok
  \/ tk.pc = "resolved" /\ tk.contract = None

\* C16: every tool invocation, whatever the tool name, the arguments and the
\* remote outcome, ends with a tool result and nothing else: the result is a
\* value or an error result with a message, a failure of its Gateway call or
\* of its lookup ends it with an error result, nothing is thrown to the
\* protocol layer, the process goes on serving, and an invocation that has
\* not returned can always take its next step.
C16_AlwaysAResult ==
  /\ [](\A t \in Tasks :
          IsTool(tasks[t]) =>
            /\ phase = "serving"
            /\ tasks[t].pc \in {"lookup", "resolved", "positions", "call", "done"}
            /\ tasks[t].result.kind \in
                 (IF tasks[t].pc = "done" THEN {"ok", "error"} ELSE {"none"})
            /\ tasks[t].result.kind = "error" => tasks[t].result.msg # ""
            /\ tasks[t].op \notin ToolNames =>
                 tasks[t].pc = "done" /\ tasks[t].result.kind = "error"
            /\ ENABLED StepOf(t))
  /\ [][\A t \in Tasks :
          /\ (IsTool(tasks[t]) /\ Failing(tasks[t]) /\ tasks'[t] # tasks[t]) =>
               /\ tasks'[t].pc = "done"
               /\ tasks'[t].result.kind = "error"
          /\ (IsTool(tasks[t]) /\ tasks[t].pc = "done" /\ tasks'[t] # tasks[t]) =>
               tasks'[t] = IdleTask /\ phase' = "serving"]_vars

\* a tool whose login was rejected has returned an error result
C16_Witness ==
  \E t \in Tasks :
    /\ tasks[t].op = "search_contracts" /\ tasks[t].pc = "done"
    /\ Len(tasks[t].calls) = 1
    /\ tasks[t].result.kind = "error"
    /\ tasks[t].result.msg = "Failed: Authentication failed"
    /\ phase = "serving"

\* nothing of the reference data has been loaded or asked for
NothingLoaded ==
  /\ accountsCache = EmptyMap
  /\ contractsCache = EmptyMap
  /\ symbolToContractIdMap = EmptyMap
  /\ \A t \in Tasks : tasks[t].calls = <<>>

\* the positions of main() in their order
StartupShape ==
  LET m == tasks[1]
  IN /\ phase = "starting" => m.op = "main"
     /\ (phase = "starting" /\ m.pc \in {"start", "auth_wait"}) =>
          authToken = None /\ NothingLoaded /\ ~timerOn
     /\ (phase = "starting" /\ m.pc \notin {"start", "auth_wait"}) => nextToken > 1
     /\ (phase = "starting" /\ m.pc = "authenticated") => NothingLoaded
     /\ (phase = "starting" /\ m.pc # "initialized") => ~timerOn
     /\ (phase = "starting" /\ m.pc = "initialized") =>
          /\ timerOn
          /\ Len(m.calls) = 1 + Len(COMMON_SYMBOLS)
          /\ m.calls[1].path = "/Account/search"
     /\ phase = "serving" => timerOn /\ credsPresent /\ nextToken > 1
     /\ phase = "exited" =>
          /\ authToken = None /\ NothingLoaded /\ ~timerOn
          /\ tasks[1].op = "main" /\ tasks[1].pc = "exited"
          /\ tasks[1].result.kind = "threw"
     /\ phase # "serving" =>
          \A t \in Tasks : tasks[t].op \in {"idle", "main"}

StartupSteps ==
  /\ (tasks[1].pc \in {"start", "auth_wait"} /\ authToken' = None
      /\ tasks'[1].pc \notin {"start", "auth_wait"}) => phase' = "exited"
  /\ phase = "exited" => phase' = "exited"
  /\ timerOn' # timerOn =>
       tasks[1].pc = "loaded" /\ tasks'[1].pc = "initialized" /\ timerOn'
  /\ phase' # phase /\ phase' = "serving" =>
       tasks[1].pc = "initialized" /\ timerOn

\* C17: main() logs in, then loads the caches, then installs the refresh
\* timer, then connects the transport, in this order; when the start-up
\* login fails (missing credentials included) nothing is loaded, no timer is
\* installed, no request is ever served and the process has exited with its
\* failure.
C17_StartupOrder == []StartupShape /\ [][StartupSteps]_vars

\* the start-up login was rejected and the process has exited
C17_Witness ==
  /\ phase = "exited" /\ credsPresent
  /\ tasks[1].result.msg = "Authentication failed"
  /\ ~timerOn /\ NothingLoaded

\* C18 as stated: 'demo' or 'topstepx' selects the first host, 'live' the
\* second, and every other value or an unset flag the third.
C18_Original ==
  baseURL # None =>
    baseURL[1] = IF environment \in {Some("demo"), Some("topstepx")} THEN TopstepxHost
                 ELSE IF environment = Some("live") THEN LiveHost
                 ELSE DemoGatewayHost

\* C18, amended: the transport is created with the first host when the flag
\* is 'demo' or 'topstepx' and also when it is unset or empty, with the second
\* host when it is 'live', and with the third host for every other value.
C18_BaseUrl ==
  /\ axiosInstance # None <=> baseURL # None
  /\ baseURL # None =>
       /\ environment \in {None, Some(""), Some("demo"), Some("topstepx")} =>
            baseURL[1] = TopstepxHost
       /\ environment = Some("live") => baseURL[1] = LiveHost
       /\ environment \notin {None, Some(""), Some("demo"), Some("topstepx"), Some("live")} =>
            baseURL[1] = DemoGatewayHost

\* the server has logged in with the flag unset
C18_Witness ==
  /\ environment = None
  /\ axiosInstance # None
  /\ baseURL = Some(TopstepxHost)

\* loadAccounts resumes in slot t with the outcome of its /Account/search
AccountsStep(t) == tasks[t].pc = "accounts" /\ tasks'[t].pc # "accounts"

\* the accounts a search has returned to loadAccounts, by id
searchedAccounts(out) ==
  LET list == IF out.ok /\ out.val.t = "obj" /\ out.val.accounts # None
              THEN out.val.accounts[1] ELSE <<>>
  IN [id \in {list[k].id : k \in DOMAIN list} |->
        list[CHOOSE k \in DOMAIN list :
               list[k].id = id /\ \A j \in DOMAIN list : list[j].id = id => j <= k]]

\* the accounts a reader of the account cache has been given
accountsRead(tk) ==
  IF "accounts" \in DOMAIN tk.result.val
  THEN {tk.result.val.accounts[k] : k \in DOMAIN tk.result.val.accounts}
  ELSE {tk.result.val.account}

\* a reader of the account cache that has got accounts
IsAccountReader(tk) ==
  /\ tk.pc = "done" /\ tk.result.kind = "ok"
  /\ \/ tk.op \in {"get_accounts", "get_account_summary"}
     \/ tk.op = "read_resource" /\ matchUri(tk.uri).resourceType = "account"

\* C19 as stated: the step of a refresh that clears the account map leaves,
\* at its suspension point, a map without the accounts the refresh puts back,
\* so that a reader running then misses an account of both snapshots.
C19_Original ==
  [][\A t \in Tasks :
       AccountsStep(t) /\ tasks[t].req.out.ok =>
         \A a \in DOMAIN accountsCache \cap DOMAIN searchedAccounts(tasks[t].req.out) :
           a \notin DOMAIN accountsCache']_vars

\* C19, amended: no reader can observe the account map between its clearing
\* and its repopulation: the map changes only at the step of loadAccounts
\* that follows a successful search, which replaces the whole map by the new
\* snapshot at once, so every state holds the snapshot before or the snapshot
\* after, and what a reader is given while a refresh is in progress is taken
\* from the map of the state it runs in.
C19_WholeSnapshots ==
  [][/\ accountsCache' # accountsCache =>
          \E t \in Tasks : AccountsStep(t) /\ tasks[t].req.out.ok
     /\ \A t \in Tasks :
          AccountsStep(t) =>
            accountsCache' = IF tasks[t].req.out.ok
                             THEN searchedAccounts(tasks[t].req.out)
                             ELSE accountsCache
     /\ \A t \in Tasks :
          (tasks[t].op = "idle" /\ IsAccountReader(tasks'[t])) =>
            /\ accountsCache' = accountsCache
            /\ accountsRead(tasks'[t]) \subseteq
                 {accountsCache[a] : a \in DOMAIN accountsCache}
            /\ "accounts" \in DOMAIN tasks'[t].result.val =>
                 accountsRead(tasks'[t]) = {accountsCache[a] : a \in DOMAIN accountsCache}]_vars

\* get_accounts ran while a scheduled refresh was in progress and was given
\* both cached accounts
C19_Witness ==
  /\ tasks[1].op = "refresh" /\ tasks[1].pc = "contracts"
  /\ tasks[2].op = "get_accounts" /\ tasks[2].pc = "done"
  /\ tasks[2].duringRefresh
  /\ tasks[2].result.val.count = 2
  /\ Cardinality(DOMAIN accountsCache) = 2

\* an invocation of initializeData: the first load of main() or a refresh
\* of the timer, from its /Account/search to its end
IsRefresh(tk) ==
  \/ tk.op = "refresh"
  \/ tk.op = "main" /\ tk.pc \in {"accounts", "accounts_loaded", "contracts",
                                  "loaded", "initialized"}

\* how many symbols of the allow-list the refresh has searched for
searched(tk) ==
  IF tk.pc \in {"accounts", "accounts_loaded"} THEN 0
  ELSE IF tk.pc = "contracts" THEN tk.i
  ELSE Len(COMMON_SYMBOLS)

\* the requests of a refresh that has searched for the first k symbols
refreshCalls(k) ==
  <<[path |-> "/Account/search", body |-> AccountSearchBody]>> \o
    [j \in 1..k |-> [path |-> "/Contract/search",
                     body |-> [searchText |-> AllCommonSymbols[j], live |-> FALSE]]]

\* loadContracts resumes in slot t with the outcome of the search of a symbol
ContractStep(t) ==
  /\ tasks[t].pc = "contracts"
  /\ tasks'[t].pc # "contracts" \/ tasks'[t].i # tasks[t].i

\* C20: each refresh issues one /Account/search and then, in the order of
\* the allow-list, exactly one /Contract/search for each of its symbols (8 in
\* the source, the first NumCommon of them here), and caches the first match
\* of each; a search that fails or finds nothing changes nothing but leaves
\* its own symbol out: the loop goes on to the next symbol, whose first match
\* is cached all the same.
C20_AllSymbolsSearched ==
  /\ Len(AllCommonSymbols) = 8
  /\ [][/\ \A t \in Tasks :
             IsRefresh(tasks'[t]) => tasks'[t].calls = refreshCalls(searched(tasks'[t]))
        /\ \A t \in Tasks :
             ContractStep(t) =>
               LET out == tasks[t].req.out
                   symbol == AllCommonSymbols[tasks[t].i]
                   found == out.ok /\ out.val.t = "arr" /\ out.val.items # <<>>
               IN /\ IF found
                     THEN /\ DOMAIN contractsCache' = DOMAIN contractsCache \cup {symbol}
                          /\ contractsCache'[symbol] = out.val.items[1]
                          /\ symbolToContractIdMap'[symbol] = out.val.items[1].id
                     ELSE DOMAIN contractsCache' = DOMAIN contractsCache
                  /\ \A s \in DOMAIN contractsCache \ {symbol} :
                       contractsCache'[s] = contractsCache[s]
                  /\ DOMAIN symbolToContractIdMap' = DOMAIN contractsCache'
                  /\ IF tasks[t].i < Len(COMMON_SYMBOLS)
                     THEN tasks'[t].pc = "contracts" /\ tasks'[t].i = tasks[t].i + 1
                     ELSE tasks'[t].pc # "contracts"]_vars

\* the first load found the accounts, the search of the first symbol failed,
\* and the second symbol was searched for and cached all the same
C20_Witness ==
  /\ tasks[1].op = "main" /\ tasks[1].pc = "loaded"
  /\ accountsCache # EmptyMap
  /\ tasks[1].caught = 1
  /\ AllCommonSymbols[1] \notin DOMAIN contractsCache
  /\ AllCommonSymbols[2] \in DOMAIN contractsCache
  /\ tasks[1].calls = refreshCalls(2)

\* C21: the two views of the contract cache agree in every state: the same
\* symbols, and for each the id of the cached contract.
C21_ViewsAgree ==
  /\ DOMAIN symbolToContractIdMap = DOMAIN contractsCache
  /\ \A s \in DOMAIN contractsCache : symbolToContractIdMap[s] = contractsCache[s].id

\* a lookup of a symbol outside the allow-list began while a refresh was in
\* progress, fetched the symbol and cached it beside a symbol of the refresh
\* that is still reloading the allow-list
C21_Witness ==
  /\ tasks[1].op = "refresh" /\ tasks[1].pc = "contracts"
  /\ tasks[2].op = "get_contract_details" /\ tasks[2].pc = "done"
  /\ tasks[2].duringRefresh /\ tasks[2].calls # <<>>
  /\ DOMAIN contractsCache = {"MES", "ES"}
  /\ contractsCache["ES"] # contractsCache["MES"]

\* a refresh ends in slot t: loadContracts has handled its last symbol
RefreshEnds(t) ==
  /\ IsRefresh(tasks[t])
  /\ tasks[t].pc = "contracts" /\ tasks'[t].pc # "contracts"

\* C22: when a refresh ends and each of its searches for a symbol of the
\* allow-list has returned a match, the contract cache has an entry for every
\* symbol of the allow-list, whether or not another refresh overlaps with it.
C22_CompleteAtEnd ==
  [][\A t \in Tasks :
       (RefreshEnds(t) /\ tasks'[t].matched = Len(COMMON_SYMBOLS)) =>
         CommonSet \subseteq DOMAIN contractsCache']_vars

\* the request of slot t is sent or sent again
SendStep(t) ==
  /\ tasks[t].req.rpc \in {"ensured", "relogged"}
  /\ tasks'[t].req.sends = tasks[t].req.sends + 1

\* a 401 is handled in slot t: the catch block sets authToken to null
Invalidation(t) ==
  /\ tasks[t].req.rpc = "send_wait"
  /\ tasks'[t].req.relogins = tasks[t].req.relogins + 1

\* the tokens the sends of the requests in flight have carried
tokensSent == UNION {{tasks[t].req.tokens[j] : j \in DOMAIN tasks[t].req.tokens} : t \in Tasks}

\* C23: no call is sent with a token a 401 has invalidated, however the
\* requests in flight interleave.  A token is live from the login that issued
\* it until a 401 is handled: authToken holds it exactly that long.  Every
\* send carries the token of the transport, which is the live token at that
\* moment; only the handling of a 401 ends the life of a token, and only a
\* login that completes afterwards makes a token live, a new one that no
\* earlier send has carried.
C23_NoInvalidatedToken ==
  [][/\ \A t \in Tasks :
          SendStep(t) =>
            LET k == tasks'[t].req.tokens[Len(tasks'[t].req.tokens)]
            IN authToken = Some(k) /\ axiosInstance = Some(k)
     /\ (authToken # None /\ authToken' = None) => \E t \in Tasks : Invalidation(t)
     /\ \A t \in Tasks : Invalidation(t) => authToken' = None
     /\ (authToken' # None /\ authToken' # authToken) =>
          /\ authToken' = Some(nextToken) /\ axiosInstance' = Some(nextToken)
          /\ nextToken' = nextToken + 1
          /\ \A k \in tokensSent : k < nextToken
     /\ axiosInstance' # axiosInstance => axiosInstance' = authToken']_vars

\* two requests were in flight with the first token; the 401 of the first
\* invalidated it, a login issued the second token and the request was sent
\* again with it; the 401 of the second request has now invalidated that one
C23_Witness ==
  /\ tasks[1].req.rpc = "resend_wait" /\ tasks[1].req.tokens = <<1, 2>>
  /\ tasks[2].req.rpc = "relogin_wait" /\ tasks[2].req.tokens = <<1>>
  /\ authToken = None /\ axiosInstance = Some(2)

\* the ways a /Contract/search can fail at the Gateway: the login of
\* ensureAuthenticated or of the retry, the transport, the envelope
SearchFailures == {"nocreds", "auth", "http401", "http", "network", "envelope"}

\* C24: a lookup whose /Contract/search fails returns absent and caches
\* nothing, as a lookup with no match does; the tool that asked for the symbol
\* then ends with the error result 'Contract not found' and issues no further
\* remote call.
C24_LookupNeverThrows ==
  [][\A t \in Tasks :
       LET tk == tasks[t]
           nk == tasks'[t]
       IN /\ (tk.pc = "lookup" /\ nk.pc # "lookup") =>
               /\ ~tk.req.out.ok => tk.req.out.kind \in SearchFailures
               /\ (~tk.req.out.ok \/ tk.req.out.val.t # "arr" \/ tk.req.out.val.items = <<>>) =>
                    /\ nk.pc = "resolved" /\ nk.contract = None
                    /\ nk.result = NoResult
                    /\ nk.calls = tk.calls
                    /\ UNCHANGED cacheVars
          /\ (tk.pc = "resolved" /\ tk.contract = None /\ nk # tk) =>
               /\ nk.pc = "done"
               /\ nk.result = [kind |-> "error", msg |-> "Contract not found", val |-> Undef]
               /\ nk.calls = tk.calls
               /\ Len(nk.calls) = 1 /\ nk.calls[1].path = "/Contract/search"
               /\ nk.req = NoReq
               /\ UNCHANGED cacheVars]_vars

\* place_order asked for a symbol whose search failed at the login, and has
\* ended with 'Contract not found' after that one call, nothing cached
C24_Witness ==
  \E t \in Tasks :
    /\ tasks[t].op = "place_order" /\ tasks[t].pc = "done"
    /\ tasks[t].caught = 1
    /\ tasks[t].result.kind = "error" /\ tasks[t].result.msg = "Contract not found"
    /\ Len(tasks[t].calls) = 1
    /\ authToken = None
    /\ tasks[t].args.symbol[1] \notin DOMAIN contractsCache

====
